---- MODULE Spec2Model ----
(***************************************************************************)
(* A model of the reconciliation engine of advanced_data_validator:        *)
(* ValidatorEngine (backend/app/validator_engine.py).                      *)
(*                                                                         *)
(* Numbers are integers; a pandas value is a record [k, v] whose kind k is *)
(* "num" or "nan" (NaN / missing).  A quotient that the code compares with *)
(* the tolerance is kept as an exact fraction [nan, n, d].                 *)
(***************************************************************************)
EXTENDS Integers, Sequences, FiniteSets, TLC

VARIABLES
    threshold_percent,   \* ValidatorEngine.threshold_percent
    s_csv,               \* the Growth column handed to the match rule
    s_fab,               \* the Gold column handed to the match rule
    scalar_res,          \* _check_match applied pair by pair
    vec_res,             \* the Series returned by _vectorized_match
    growth_file,         \* the parsed Growth file handed to load_data
    gold_file,           \* the parsed Gold file handed to load_data
    csv_df,              \* ValidatorEngine.csv_df (None until load_data)
    fabric_df,           \* ValidatorEngine.fabric_df (None until load_data)
    raw_results,         \* ValidatorEngine.raw_results
    outcome,             \* how the last engine call ended: a return or a raised error
    summary,             \* what get_summary_stats returned last
    columns,             \* df.columns of <<csv_df, fabric_df>> in _normalize_columns
    custom_column_mappings,  \* ValidatorEngine.custom_column_mappings (Growth)
    gold_column_mappings,    \* ValidatorEngine.gold_column_mappings (Gold)
    renamed_cols,        \* the renamed_cols dict of the current loop iteration
    already_mapped_targets,  \* the already_mapped_targets set of the iteration
    norm_pc,             \* where _normalize_columns stands: table and step
    norm_pass,           \* how many times _normalize_columns has been started
    rc_growth_df,        \* RootCauseEngine.growth_df
    rc_fabric_df,        \* RootCauseEngine.fabric_df
    validation_results,  \* the results dict the caller passes to analyze
    hash_order,          \* the iteration order of str sets in this process
    heap,                \* the list objects analyze has created, by identity
    root_causes,         \* RootCauseEngine.root_causes: the identity of a list
    calls,               \* the analyze calls that returned: argument and list
    root_outcome,        \* how the last analyze call ended
    fix_root_causes,     \* the root_causes list handed to generate_fixes
    fixes,               \* the list generate_fixes returned
    fix_outcome,         \* how the generate_fixes call ended
    mapper_growth_df,    \* ColumnMapper.growth_df: its columns, name and dtype
    mapper_fabric_df,    \* ColumnMapper.fabric_df: its columns, name and dtype
    threshold,           \* the threshold argument of auto_map
    mappings,            \* the dict auto_map returned
    map_outcome,         \* how the auto_map call ended
    now,                 \* datetime.utcnow(), in ticks
    SECRET_KEY,          \* auth.SECRET_KEY of the running service
    sessions,            \* the rows of the sessions table, by token
    issued,              \* the bearer tokens clients hold
    response             \* the last response of the authentication endpoints

matchVars == <<s_csv, s_fab, scalar_res, vec_res>>

engineVars == <<growth_file, gold_file, csv_df, fabric_df, raw_results, outcome, summary>>

normVars == <<columns, custom_column_mappings, gold_column_mappings, renamed_cols,
              already_mapped_targets, norm_pc, norm_pass>>

rootVars == <<rc_growth_df, rc_fabric_df, validation_results, hash_order, heap,
              root_causes, calls, root_outcome>>

fixVars == <<fix_root_causes, fixes, fix_outcome>>

mapVars == <<mapper_growth_df, mapper_fabric_df, threshold, mappings, map_outcome>>

authVars == <<now, SECRET_KEY, sessions, issued, response>>

serviceVars == <<fixVars, mapVars, authVars>>

vars == <<threshold_percent, s_csv, s_fab, scalar_res, vec_res,
          growth_file, gold_file, csv_df, fabric_df, raw_results, outcome, summary,
          columns, custom_column_mappings, gold_column_mappings, renamed_cols,
          already_mapped_targets, norm_pc, norm_pass,
          rc_growth_df, rc_fabric_df, validation_results, hash_order, heap,
          root_causes, calls, root_outcome,
          fix_root_causes, fixes, fix_outcome,
          mapper_growth_df, mapper_fabric_df, threshold, mappings, map_outcome,
          now, SECRET_KEY, sessions, issued, response>>

-----------------------------------------------------------------------------
(* Bounds of the model.                                                    *)

MaxVal == 3
MaxTol == 3
MaxLen == 2
MaxRows == 2
MaxCols == 2

-----------------------------------------------------------------------------
(* Values.                                                                 *)

NaN == [k |-> "nan", v |-> 0]

Num(x) == [k |-> "num", v |-> x]

isna(x) == x.k = "nan"

fillna(x, d) == IF isna(x) THEN Num(d) ELSE x

Abs(x) == IF x < 0 THEN -x ELSE x

\* pd.to_numeric(errors='coerce') on a column of numbers and missing values
to_numeric(x) == IF x.k = "num" THEN Num(x.v) ELSE NaN

\* an exact quotient n / d; NaN when an operand is NaN
Frac(n, d) == [nan |-> FALSE, n |-> n, d |-> d]

FracNaN == [nan |-> TRUE, n |-> 0, d |-> 1]

\* q <= t for a quotient q; a comparison with NaN is False
FracLeq(q, t) ==
    IF q.nan THEN FALSE
    ELSE IF q.d > 0 THEN q.n <= t * q.d
    ELSE q.n >= t * q.d

\* p == q for two quotients; a comparison with NaN is False
FracEq(p, q) == ~p.nan /\ ~q.nan /\ p.n * q.d = q.n * p.d

\* abs(q)
FracAbs(q) == IF q.nan THEN q ELSE Frac(Abs(q.n), Abs(q.d))

\* round(q, 2): the nearest hundredth, a tie to the even one; NaN stays NaN
round2(q) ==
    IF q.nan THEN q
    ELSE LET n     == IF q.d < 0 THEN -q.n ELSE q.n
             d     == Abs(q.d)
             whole == (n * 100) \div d
             rest  == (n * 100) % d
             up    == 2 * rest > d \/ (2 * rest = d /\ whole % 2 = 1)
         IN  Frac(IF up THEN whole + 1 ELSE whole, 100)

-----------------------------------------------------------------------------
(* The match rule.                                                         *)

\* _check_match without the zero-reference branch
_check_match_no_zero_branch(val_csv, val_fabric, t) ==
    IF isna(val_csv) \/ isna(val_fabric) THEN FALSE
    ELSE FracLeq(FracAbs(Frac((val_csv.v - val_fabric.v) * 100, val_fabric.v)), t)

\* _check_match with missing values read as 0
_check_match_na_as_zero(val_csv, val_fabric, t) ==
    LET c == fillna(val_csv, 0)
        f == fillna(val_fabric, 0)
    IN  IF f.v = 0 THEN c.v = 0
        ELSE FracLeq(FracAbs(Frac((c.v - f.v) * 100, f.v)), t)

\* _check_match dividing by the first value instead of the reference
_check_match_csv_denominator(val_csv, val_fabric, t) ==
    IF isna(val_csv) \/ isna(val_fabric) THEN FALSE
    ELSE IF val_fabric.v = 0 THEN val_csv.v = 0
    ELSE IF val_csv.v = 0 THEN FALSE
    ELSE FracLeq(FracAbs(Frac((val_csv.v - val_fabric.v) * 100, val_csv.v)), t)

\* ValidatorEngine._check_match
_check_match(val_csv, val_fabric, t) ==
    IF isna(val_csv) \/ isna(val_fabric) THEN FALSE
    ELSE IF val_fabric.v = 0 THEN val_csv.v = 0
    ELSE LET diff_pct == FracAbs(Frac((val_csv.v - val_fabric.v) * 100, val_fabric.v))
         IN  FracLeq(diff_pct, t)

\* Series.replace(0, np.nan) on one element
replace_zero_nan(x) == IF ~isna(x) /\ x.v = 0 THEN NaN ELSE x

\* abs(s_csv_f - s_fab_f) / fab_denominator * 100 on one element
vec_diff_pct(c, f, den) ==
    IF isna(den) THEN FracNaN ELSE Frac(Abs(c.v - f.v) * 100, den.v)

\* _vectorized_match with diff_pct < threshold_percent
_vectorized_match_strict(col_csv, col_fab, t) ==
    LET n               == Len(col_csv)
        n_csv           == [i \in 1..n |-> to_numeric(col_csv[i])]
        n_fab           == [i \in 1..n |-> to_numeric(col_fab[i])]
        mask_na         == [i \in 1..n |-> isna(n_csv[i]) \/ isna(n_fab[i])]
        s_csv_f         == [i \in 1..n |-> fillna(n_csv[i], 0)]
        s_fab_f         == [i \in 1..n |-> fillna(n_fab[i], 0)]
        mask_fab_zero   == [i \in 1..n |-> s_fab_f[i].v = 0]
        match_fab_zero  == [i \in 1..n |-> s_csv_f[i].v = 0]
        fab_denominator == [i \in 1..n |-> replace_zero_nan(s_fab_f[i])]
        diff_pct        == [i \in 1..n |->
                               vec_diff_pct(s_csv_f[i], s_fab_f[i], fab_denominator[i])]
        match_diff      == [i \in 1..n |->
                               FracLeq(diff_pct[i], t) /\ ~FracEq(diff_pct[i], Frac(t, 1))]
    IN  [i \in 1..n |->
            IF mask_na[i] THEN FALSE
            ELSE IF mask_fab_zero[i] THEN match_fab_zero[i]
            ELSE match_diff[i]]

\* ValidatorEngine._vectorized_match: every line acts element by element
_vectorized_match(col_csv, col_fab, t) ==
    LET n               == Len(col_csv)
        n_csv           == [i \in 1..n |-> to_numeric(col_csv[i])]
        n_fab           == [i \in 1..n |-> to_numeric(col_fab[i])]
        mask_na         == [i \in 1..n |-> isna(n_csv[i]) \/ isna(n_fab[i])]
        s_csv_f         == [i \in 1..n |-> fillna(n_csv[i], 0)]
        s_fab_f         == [i \in 1..n |-> fillna(n_fab[i], 0)]
        mask_fab_zero   == [i \in 1..n |-> s_fab_f[i].v = 0]
        match_fab_zero  == [i \in 1..n |-> s_csv_f[i].v = 0]
        fab_denominator == [i \in 1..n |-> replace_zero_nan(s_fab_f[i])]
        diff_pct        == [i \in 1..n |->
                               vec_diff_pct(s_csv_f[i], s_fab_f[i], fab_denominator[i])]
        match_diff      == [i \in 1..n |-> FracLeq(diff_pct[i], t)]
    IN  [i \in 1..n |->
            IF mask_na[i] THEN FALSE
            ELSE IF mask_fab_zero[i] THEN match_fab_zero[i]
            ELSE match_diff[i]]

-----------------------------------------------------------------------------
(* Tables.  A DataFrame is [kcols, mcols, rows]: kcols are its text        *)
(* columns, mcols its numeric columns, a row maps every column to a cell.  *)
(* A text cell is a string, NA when missing; a numeric cell is Num or NaN. *)

None == [none |-> TRUE, kcols |-> {}, mcols |-> {}, rows |-> <<>>]

DataFrame(kcols, mcols, rows) ==
    [none |-> FALSE, kcols |-> kcols, mcols |-> mcols, rows |-> rows]

NA == "<NA>"

Columns(df) == df.kcols \cup df.mcols

\* the strings of the model in lexicographic order
StrOrder ==
    <<"1970-01-01", "2024-01-01", "2024-01-02", "A", "B", "MOBILE", "OTHER",
      "a1", "a2", "ctr", "f", "fb", "feed", "frequency", "ig", "m", "nan", "story">>

Rank(x) == CHOOSE i \in 1..Len(StrOrder) : StrOrder[i] = x

\* tuple comparison of two group keys over the key columns cols
RECURSIVE KeyLess(_, _, _)
KeyLess(cols, k1, k2) ==
    IF cols = <<>> THEN FALSE
    ELSE LET c == Head(cols)
         IN  IF k1[c] = k2[c] THEN KeyLess(Tail(cols), k1, k2)
             ELSE Rank(k1[c]) < Rank(k2[c])

\* the elements of the set of keys S as a list sorted by key
RECURSIVE SortedKeys(_, _)
SortedKeys(cols, S) ==
    IF S = {} THEN <<>>
    ELSE LET m == CHOOSE x \in S : \A y \in S \ {x} : KeyLess(cols, x, y)
         IN  <<m>> \o SortedKeys(cols, S \ {m})

ColSet(cols) == {cols[i] : i \in 1..Len(cols)}

\* Series.sum(): missing values are skipped
RECURSIVE SumCells(_)
SumCells(cells) ==
    IF cells = <<>> THEN 0
    ELSE (IF isna(Head(cells)) THEN 0 ELSE Head(cells).v) + SumCells(Tail(cells))

\* the cells of column m in a list of rows
Cells(rows, m) == [i \in 1..Len(rows) |-> rows[i][m]]

\* the group key of a row
KeyOf(row, cols) == [c \in ColSet(cols) |-> row[c]]

\* df.groupby(cols)[metrics].max() in place of .sum()
GroupBySum_max(df, cols, metrics) ==
    LET usable(r) == \A c \in ColSet(cols) : r[c] # NA
        keys      == {KeyOf(df.rows[i], cols) : i \in {j \in 1..Len(df.rows) : usable(df.rows[j])}}
        sorted    == SortedKeys(cols, keys)
        largest(k, m) ==
            LET inGroup(r) == usable(r) /\ KeyOf(r, cols) = k /\ ~isna(r[m])
                cells == Cells(SelectSeq(df.rows, inGroup), m)
            IN  IF cells = <<>> THEN NaN
                ELSE CHOOSE c \in ColSet(cells) : \A e \in ColSet(cells) : e.v <= c.v
    IN  [i \in 1..Len(sorted) |->
            [key |-> sorted[i],
             val |-> [m \in ColSet(metrics) |-> largest(sorted[i], m)]]]

\* df.groupby(cols)[metrics].sum().reset_index(): one row per key, sorted by
\* key; a row with a missing key cell belongs to no group (dropna=True)
GroupBySum(df, cols, metrics) ==
    LET usable(r) == \A c \in ColSet(cols) : r[c] # NA
        keys      == {KeyOf(df.rows[i], cols) : i \in {j \in 1..Len(df.rows) : usable(df.rows[j])}}
        sorted    == SortedKeys(cols, keys)
        total(k, m) ==
            LET inGroup(r) == usable(r) /\ KeyOf(r, cols) = k
            IN  Num(SumCells(Cells(SelectSeq(df.rows, inGroup), m)))
    IN  [i \in 1..Len(sorted) |->
            [key |-> sorted[i],
             val |-> [m \in ColSet(metrics) |-> total(sorted[i], m)]]]

\* the indices of the rows of a grouped table whose key is k
KeyMatches(g, k) == {j \in 1..Len(g) : g[j].key = k}

RECURSIVE SortMerged(_, _)
SortMerged(cols, S) ==
    IF S = {} THEN <<>>
    ELSE LET m == CHOOSE x \in S : \A y \in S : x = y \/ ~KeyLess(cols, y.key, x.key)
         IN  <<m>> \o SortMerged(cols, S \ {m})

\* the (left index, right index) pairs an outer join produces; index 0 stands
\* for the side that has no row with the key
OuterPairs(left, right) ==
    {<<i, j>> \in (1..Len(left)) \X (1..Len(right)) : left[i].key = right[j].key}
    \cup {<<i, 0>> : i \in {x \in 1..Len(left) : KeyMatches(right, left[x].key) = {}}}
    \cup {<<0, j>> : j \in {x \in 1..Len(right) : KeyMatches(left, right[x].key) = {}}}

\* an inner join: only the keys both sides have
InnerPairs(left, right) ==
    {<<i, j>> \in (1..Len(left)) \X (1..Len(right)) : left[i].key = right[j].key}

\* the join of pd.merge(..., how='outer')
JoinPairs(left, right) == OuterPairs(left, right)

\* pd.merge(left, right, on=cols, how='outer', suffixes=('_csv', '_fab')):
\* one row per joined pair, the absent side's metrics NaN, sorted by key
Merge(left, right, cols, metrics) ==
    LET nanRow == [m \in ColSet(metrics) |-> NaN]
        joined(p) ==
            [src |-> p,
             key |-> IF p[1] # 0 THEN left[p[1]].key ELSE right[p[2]].key,
             csv |-> IF p[1] # 0 THEN left[p[1]].val ELSE nanRow,
             fab |-> IF p[2] # 0 THEN right[p[2]].val ELSE nanRow]
    IN  SortMerged(cols, {joined(p) : p \in JoinPairs(left, right)})

\* merged[col] = merged[col].fillna(0) for the _csv and _fab column of every
\* metric in filled
FillMerged(merged, metrics, filled) ==
    [i \in 1..Len(merged) |->
        [merged[i] EXCEPT
            !.csv = [m \in ColSet(metrics) |->
                        IF m \in filled THEN fillna(merged[i].csv[m], 0) ELSE merged[i].csv[m]],
            !.fab = [m \in ColSet(metrics) |->
                        IF m \in filled THEN fillna(merged[i].fab[m], 0) ELSE merged[i].fab[m]]]]

\* the signed (csv - fab) / fab * 100 of one row rounded to 2 decimals, 0
\* when fab is 0
DiffPct(c, f) ==
    IF isna(c) \/ isna(f) THEN FracNaN
    ELSE IF f.v # 0 THEN round2(Frac((c.v - f.v) * 100, f.v))
    ELSE round2(Frac(0, 1))

NoDiffPct == <<>>

\* merged['perfect_match']: the vectorized rule on cost, impressions, clicks
PerfectMatch(merged, t) ==
    LET col(side, m) == [i \in 1..Len(merged) |->
                            IF side = "csv" THEN merged[i].csv[m] ELSE merged[i].fab[m]]
        cost == _vectorized_match(col("csv", "cost"), col("fab", "cost"), t)
        impr == _vectorized_match(col("csv", "impressions"), col("fab", "impressions"), t)
        clck == _vectorized_match(col("csv", "clicks"), col("fab", "clicks"), t)
    IN  [i \in 1..Len(merged) |-> cost[i] /\ impr[i] /\ clck[i]]

\* merged.to_dict(orient='records') with the columns the method added
SegmentRows(merged, metrics, withDiff, t) ==
    LET pm == PerfectMatch(merged, t)
    IN  [i \in 1..Len(merged) |->
            [key |-> merged[i].key,
             csv |-> merged[i].csv,
             fab |-> merged[i].fab,
             diff_pct |-> IF withDiff
                          THEN [m \in ColSet(metrics) |->
                                   DiffPct(merged[i].csv[m], merged[i].fab[m])]
                          ELSE NoDiffPct,
             perfect_match |-> pm[i]]]

-----------------------------------------------------------------------------
(* The dimensions of validate_all.  A method either returns its rows or    *)
(* raises (a KeyError from groupby, column selection or merged[...]).      *)

Raised == [raised |-> TRUE, rows |-> <<>>]

Returned(rows) == [raised |-> FALSE, rows |-> rows]

BaseMetrics == <<"cost", "impressions", "clicks">>

OptionalMetrics == <<"reach", "purchases", "conversion_value">>

priority_order == BaseMetrics \o OptionalMetrics

\* a set of column names as an alphabetically sorted list
RECURSIVE SortedNames(_)
SortedNames(S) ==
    IF S = {} THEN <<>>
    ELSE LET m == CHOOSE x \in S : \A y \in S : Rank(x) <= Rank(y)
         IN  <<m>> \o SortedNames(S \ {m})

\* _get_metrics_list keeping only cost, impressions and clicks
_get_metrics_list_base_only(csv, fab) ==
    LET inCommon(m) == m \in csv.mcols \cap fab.mcols
    IN  SelectSeq(BaseMetrics, inCommon)

\* ValidatorEngine._get_metrics_list
_get_metrics_list(csv, fab) ==
    LET common_metrics == csv.mcols \cap fab.mcols
        inCommon(m)    == m \in common_metrics
    IN  SelectSeq(priority_order, inCommon)
            \o SortedNames(common_metrics \ ColSet(priority_order))

\* the metric list built at the top of _validate_by_date / _validate_by_campaign
BasePlusOptional(csv, fab) ==
    LET inBoth(m) == m \in Columns(csv) /\ m \in Columns(fab)
    IN  BaseMetrics \o SelectSeq(OptionalMetrics, inBoth)

\* df.groupby(cols)[metrics] raises KeyError for a column df lacks
GroupRaises(df, cols, metrics) ==
    ~(ColSet(cols) \subseteq Columns(df)) \/ ~(ColSet(metrics) \subseteq Columns(df))

\* merged['cost_csv'] etc. raise KeyError when a base metric was not merged
PerfectRaises(metrics) == ~(ColSet(BaseMetrics) \subseteq ColSet(metrics))

\* group both tables, outer-join, fill, add the difference and the verdict
Segment(csv, fab, cols, metrics, withDiff, t) ==
    LET grouped_csv == GroupBySum(csv, cols, metrics)
        grouped_fab == GroupBySum(fab, cols, metrics)
        merged      == Merge(grouped_csv, grouped_fab, cols, metrics)
        filled      == FillMerged(merged, metrics, ColSet(metrics))
    IN  SegmentRows(filled, metrics, withDiff, t)

\* the body shared by the methods that use _get_metrics_list
DynamicSegment(csv, fab, cols, withDiff, t) ==
    LET metrics == _get_metrics_list(csv, fab)
    IN  IF GroupRaises(csv, cols, metrics) \/ GroupRaises(fab, cols, metrics)
           \/ PerfectRaises(metrics)
        THEN Raised
        ELSE Returned(Segment(csv, fab, cols, metrics, withDiff, t))

\* the body shared by _validate_by_date and _validate_by_campaign
BaseSegment(csv, fab, cols, withDiff, t) ==
    LET metrics == BasePlusOptional(csv, fab)
    IN  IF GroupRaises(csv, cols, metrics) \/ GroupRaises(fab, cols, metrics)
        THEN Raised
        ELSE Returned(Segment(csv, fab, cols, metrics, withDiff, t))

\* ValidatorEngine._validate_overall
_validate_overall(csv, fab, t) ==
    LET metrics == _get_metrics_list(csv, fab)
        entry(metric) ==
            LET csv_val == Num(SumCells(Cells(csv.rows, metric)))
                fab_val == Num(SumCells(Cells(fab.rows, metric)))
            IN  [metric   |-> metric,
                 csv      |-> csv_val.v,
                 fabric   |-> fab_val.v,
                 diff     |-> csv_val.v - fab_val.v,
                 diff_pct |-> DiffPct(csv_val, fab_val),
                 match    |-> _check_match(csv_val, fab_val, t)]
    IN  IF metrics = <<>> THEN Returned(<<>>)
        ELSE Returned([i \in 1..Len(metrics) |-> entry(metrics[i])])

_validate_by_date(csv, fab, t) == BaseSegment(csv, fab, <<"day">>, TRUE, t)

_validate_by_campaign(csv, fab, t) == BaseSegment(csv, fab, <<"campaign_name">>, FALSE, t)

_validate_by_platform(csv, fab, t) ==
    IF "platform" \notin Columns(csv) THEN Returned(<<>>)
    ELSE DynamicSegment(csv, fab, <<"platform">>, FALSE, t)

_validate_by_placement(csv, fab, t) ==
    IF "placement" \notin Columns(csv) THEN Returned(<<>>)
    ELSE DynamicSegment(csv, fab, <<"placement">>, FALSE, t)

_validate_by_device(csv, fab, t) ==
    IF "device" \notin Columns(csv) THEN Returned(<<>>)
    ELSE DynamicSegment(csv, fab, <<"device">>, FALSE, t)

_validate_by_gender(csv, fab, t) ==
    IF "gender" \notin Columns(csv) THEN Returned(<<>>)
    ELSE DynamicSegment(csv, fab, <<"gender">>, FALSE, t)

_validate_by_age(csv, fab, t) ==
    IF "age" \notin Columns(csv) THEN Returned(<<>>)
    ELSE DynamicSegment(csv, fab, <<"age">>, FALSE, t)

_validate_by_camp_date(csv, fab, t) ==
    DynamicSegment(csv, fab, <<"campaign_name", "day">>, FALSE, t)

_validate_by_campaign_gender(csv, fab, t) ==
    IF "gender" \notin Columns(csv) THEN Returned(<<>>)
    ELSE DynamicSegment(csv, fab, <<"campaign_name", "gender">>, TRUE, t)

_validate_by_date_gender_age(csv, fab, t) ==
    IF ~({"gender", "age"} \subseteq Columns(csv)) THEN Returned(<<>>)
    ELSE DynamicSegment(csv, fab, <<"day", "gender", "age">>, TRUE, t)

\* the keys of the results dict, in the order validate_all evaluates them
DimensionOrder ==
    <<"overall", "by_date", "by_campaign", "by_platform", "by_placement",
      "by_device", "by_gender", "by_age", "by_camp_date", "by_camp_gender",
      "by_date_gender_age">>

Dimensions == ColSet(DimensionOrder)

\* the key columns each dimension groups by
DimCols(d) ==
    CASE d = "overall"            -> <<>>
      [] d = "by_date"            -> <<"day">>
      [] d = "by_campaign"        -> <<"campaign_name">>
      [] d = "by_platform"        -> <<"platform">>
      [] d = "by_placement"       -> <<"placement">>
      [] d = "by_device"          -> <<"device">>
      [] d = "by_gender"          -> <<"gender">>
      [] d = "by_age"             -> <<"age">>
      [] d = "by_camp_date"       -> <<"campaign_name", "day">>
      [] d = "by_camp_gender"     -> <<"campaign_name", "gender">>
      [] d = "by_date_gender_age" -> <<"day", "gender", "age">>

\* what the method of dimension d does
Validate(d, csv, fab, t) ==
    CASE d = "overall"            -> _validate_overall(csv, fab, t)
      [] d = "by_date"            -> _validate_by_date(csv, fab, t)
      [] d = "by_campaign"        -> _validate_by_campaign(csv, fab, t)
      [] d = "by_platform"        -> _validate_by_platform(csv, fab, t)
      [] d = "by_placement"       -> _validate_by_placement(csv, fab, t)
      [] d = "by_device"          -> _validate_by_device(csv, fab, t)
      [] d = "by_gender"          -> _validate_by_gender(csv, fab, t)
      [] d = "by_age"             -> _validate_by_age(csv, fab, t)
      [] d = "by_camp_date"       -> _validate_by_camp_date(csv, fab, t)
      [] d = "by_camp_gender"     -> _validate_by_campaign_gender(csv, fab, t)
      [] d = "by_date_gender_age" -> _validate_by_date_gender_age(csv, fab, t)

-----------------------------------------------------------------------------
(* The state of an engine right after construction, and the values of the *)
(* variables a specification does not use.                                 *)

\* threshold_percent: float = 3.0
DefaultThreshold == 3

NoResults == <<>>

NotRun == <<>>

NoSummary == [state |-> "none", overall_match_rate |-> Frac(0, 1),
              total_segments |-> 0, passing_segments |-> 0, details |-> <<>>]

EmptySummary == [NoSummary EXCEPT !.state = "empty"]

EngineIdle ==
    /\ growth_file = None
    /\ gold_file = None
    /\ csv_df = None
    /\ fabric_df = None
    /\ raw_results = NoResults
    /\ outcome = "constructed"
    /\ summary = NoSummary

MatchIdle ==
    /\ s_csv = <<>>
    /\ s_fab = <<>>
    /\ scalar_res = NotRun
    /\ vec_res = NotRun

EmptyDict == <<>>

Growth == 1

Gold == 2

NoTable == 3

NormIdle ==
    /\ columns = <<<<>>, <<>>>>
    /\ custom_column_mappings = <<>>
    /\ gold_column_mappings = <<>>
    /\ renamed_cols = EmptyDict
    /\ already_mapped_targets = {}
    /\ norm_pc = [df |-> NoTable, step |-> 0]
    /\ norm_pass = 0

\* a table of the root-cause engine: its columns and its rows, the rows
\* written as runs of n equal consecutive rows
RootFrame(cols, runs) == [columns |-> cols, runs |-> runs]

RootIdle ==
    /\ rc_growth_df = RootFrame({}, <<>>)
    /\ rc_fabric_df = RootFrame({}, <<>>)
    /\ validation_results = <<>>
    /\ hash_order = "ascending"
    /\ heap = <<>>
    /\ root_causes = 0
    /\ calls = <<>>
    /\ root_outcome = "none"

FixIdle ==
    /\ fix_root_causes = <<>>
    /\ fixes = <<>>
    /\ fix_outcome = "none"

\* the default of auto_map's threshold parameter
DefaultMapThreshold == 70

MapIdle ==
    /\ mapper_growth_df = <<>>
    /\ mapper_fabric_df = <<>>
    /\ threshold = DefaultMapThreshold
    /\ mappings = EmptyDict
    /\ map_outcome = "none"

NoResponse == [endpoint |-> "none", token |-> <<>>, status |-> 0]

AuthIdle ==
    /\ now = 0
    /\ SECRET_KEY = 1
    /\ sessions = EmptyDict
    /\ issued = {}
    /\ response = NoResponse

ServicesIdle == FixIdle /\ MapIdle /\ AuthIdle

-----------------------------------------------------------------------------
(* load_data, validate_all and get_summary_stats.                          *)

KeyColumns == {"day", "campaign_name", "platform", "placement", "device", "gender", "age"}

\* numeric_cols of load_data: the numeric columns it cleans
numeric_cols == {"cost", "impressions", "clicks", "reach", "purchases", "conversion_value"}

EpochDay == "1970-01-01"

\* pd.to_datetime(errors='coerce').dt.strftime('%Y-%m-%d') on the day
\* strings of the model; an unparseable day becomes missing
ParseDay(x) ==
    CASE x = "2024-01-01" -> "2024-01-01"
      [] x = "01/02/2024" -> "2024-01-02"
      [] x = "2024-01-02" -> "2024-01-02"
      [] OTHER            -> NA

\* self.device_mapping
device_mapping(x) ==
    CASE x = "Computers"     -> "DESKTOP"
      [] x = "Mobile phones" -> "MOBILE"
      [] x = "Tablets"       -> "TABLET"
      [] x = "Other"         -> "OTHER"
      [] x = "TV screens"    -> "OTHER"
      [] x = "Connected TV"  -> "OTHER"
      [] OTHER               -> x

\* str.upper() on the device strings of the model
Upper(x) ==
    CASE x = "mobile" -> "MOBILE"
      [] OTHER        -> x

\* the placement_mapping entries for the placement strings of the model
placement_mapping(x) ==
    CASE x = "Feed"             -> "feed"
      [] x = "Facebook feed"    -> "feed"
      [] x = "Instagram feed"   -> "feed"
      [] OTHER                  -> x

\* the cell load_data leaves in column c for the raw cell x
CleanCell(c, x) ==
    CASE c = "day"           -> (IF ParseDay(x) = NA THEN EpochDay ELSE ParseDay(x))
      [] c = "campaign_name" -> (IF x = NA THEN "nan" ELSE x)
      [] c = "placement"     -> placement_mapping(x)
      [] c = "device"        -> (IF device_mapping(x) = NA THEN "OTHER"
                                 ELSE Upper(device_mapping(x)))
      [] c \in numeric_cols  -> fillna(to_numeric(x), 0)
      [] OTHER               -> x

\* the table load_data stores for a parsed file whose columns already carry
\* canonical names (on such a file _normalize_columns renames nothing)
CleanFrame(df) ==
    DataFrame(df.kcols, df.mcols,
              [i \in 1..Len(df.rows) |->
                  [c \in Columns(df) |-> CleanCell(c, df.rows[i][c])]])

\* ValidatorEngine.load_data
load_data ==
    /\ growth_file # None
    /\ csv_df = None
    /\ csv_df' = CleanFrame(growth_file)
    /\ fabric_df' = CleanFrame(gold_file)
    /\ outcome' = "loaded"
    /\ UNCHANGED <<threshold_percent, serviceVars, rootVars, matchVars, normVars, growth_file, gold_file, raw_results, summary>>

\* ValidatorEngine.validate_all
validate_all ==
    /\ growth_file # None
    /\ outcome \in {"constructed", "loaded"}
    /\ IF csv_df = None \/ fabric_df = None
       THEN /\ outcome' = "ValueError"
            /\ UNCHANGED raw_results
       ELSE \E results \in {[d \in Dimensions |->
                                 Validate(d, csv_df, fabric_df, threshold_percent)]} :
                IF \E d \in Dimensions : results[d].raised
                THEN /\ outcome' = "KeyError"
                     /\ UNCHANGED raw_results
                ELSE /\ outcome' = "validated"
                     /\ raw_results' = [d \in Dimensions |-> results[d].rows]
    /\ UNCHANGED <<threshold_percent, serviceVars, rootVars, matchVars, normVars, growth_file, gold_file, csv_df, fabric_df, summary>>

\* get_summary_stats counting x.get('perfect_match') for 'overall' as well
RECURSIVE CountMatches_perfect_match_only(_, _)
CountMatches_perfect_match_only(key, data) ==
    IF data = <<>> THEN 0
    ELSE (IF "perfect_match" \in DOMAIN Head(data) /\ Head(data).perfect_match
          THEN 1 ELSE 0) + CountMatches_perfect_match_only(key, Tail(data))

\* sum(1 for x in data if ...)
RECURSIVE CountMatches(_, _)
CountMatches(key, data) ==
    IF data = <<>> THEN 0
    ELSE (IF (IF key = "overall" THEN Head(data).match ELSE Head(data).perfect_match)
          THEN 1 ELSE 0) + CountMatches(key, Tail(data))

\* round(matches / total * 100, 2) if total > 0 else 0
Percent(matches, total) ==
    IF total > 0 THEN round2(Frac(matches * 100, total)) ELSE Frac(0, 1)

RECURSIVE SumField(_, _)
SumField(details, f) ==
    IF details = <<>> THEN 0 ELSE Head(details)[f] + SumField(Tail(details), f)

\* the dict get_summary_stats builds from raw_results
SummaryOf(results) ==
    LET keys == SelectSeq(DimensionOrder, LAMBDA d : d \in DOMAIN results)
        details == [i \in 1..Len(keys) |->
                       [type    |-> keys[i],
                        total   |-> Len(results[keys[i]]),
                        matches |-> CountMatches(keys[i], results[keys[i]]),
                        percent |-> Percent(CountMatches(keys[i], results[keys[i]]),
                                            Len(results[keys[i]]))]]
        total_checks  == SumField(details, "total")
        total_matches == SumField(details, "matches")
    IN  [state              |-> "stats",
         overall_match_rate |-> Percent(total_matches, total_checks),
         total_segments     |-> total_checks,
         passing_segments   |-> total_matches,
         details            |-> details]

\* ValidatorEngine.get_summary_stats
get_summary_stats ==
    /\ growth_file # None
    /\ summary = NoSummary
    /\ outcome \in {"validated", "KeyError", "ValueError"}
    /\ summary' = IF DOMAIN raw_results = {} THEN EmptySummary ELSE SummaryOf(raw_results)
    /\ UNCHANGED <<threshold_percent, serviceVars, rootVars, matchVars, normVars, growth_file, gold_file, csv_df,
                   fabric_df, raw_results, outcome>>

-----------------------------------------------------------------------------
(* The engine on bounded inputs.                                           *)

FullSchema == [kcols |-> KeyColumns,
               mcols |-> {"cost", "impressions", "clicks", "reach", "frequency", "ctr"}]

Without(schema, cols) ==
    [kcols |-> schema.kcols \ cols, mcols |-> schema.mcols \ cols]

\* the (Growth, Gold) column sets the files are drawn with
SchemaPairs ==
    {<<FullSchema, FullSchema>>}
    \cup {<<Without(FullSchema, {k}), FullSchema>> : k \in KeyColumns}
    \cup {<<FullSchema, Without(FullSchema, {k})>> : k \in KeyColumns}
    \cup {<<Without(FullSchema, {k}), Without(FullSchema, {k})>> : k \in {"platform", "gender"}}
    \cup {<<Without(FullSchema, {"gender", "age"}), Without(FullSchema, {"platform"})>>}
    \cup {<<Without(FullSchema, {"reach"}), FullSchema>>,
          <<Without(FullSchema, {"reach", "frequency"}), Without(FullSchema, {"reach", "frequency"})>>,
          <<FullSchema, Without(FullSchema, {"cost"})>>,
          <<Without(FullSchema, {"cost"}), Without(FullSchema, {"cost"})>>,
          <<Without(FullSchema, {"cost", "impressions", "clicks"}),
            Without(FullSchema, {"cost", "impressions", "clicks"})>>,
          <<Without(FullSchema, FullSchema.mcols), FullSchema>>}

\* the column sets drawn with every list of at most MaxRows rows
CoreSchemaPairs ==
    {<<FullSchema, FullSchema>>,
     <<Without(FullSchema, {"gender"}), Without(FullSchema, {"gender"})>>}

RawRow(day, camp, platform, placement, device, gender, age, cost, impr, clicks, reach, freq,
       ctr) ==
    [day |-> day, campaign_name |-> camp, platform |-> platform, placement |-> placement,
     device |-> device, gender |-> gender, age |-> age, cost |-> cost, impressions |-> impr,
     clicks |-> clicks, reach |-> reach, frequency |-> freq, ctr |-> ctr]

\* the raw rows the files are made of
RowPool ==
    <<RawRow("2024-01-01", "A", "fb", "Feed", "Mobile phones", "m", "a1",
             Num(100), Num(10), Num(1), Num(5), Num(2), Num(10)),
      RawRow("2024-01-01", "A", "fb", "feed", "mobile", "m", "a1",
             Num(103), Num(10), Num(1), Num(500), NaN, Num(10)),
      RawRow("n/a", NA, NA, "story", NA, "f", "a2",
             NaN, Num(0), Num(2), Num(5), Num(1), NaN),
      RawRow("2024-01-01", "A", "fb", "feed", "MOBILE", "m", "a1",
             Num(-100), Num(10), Num(1), Num(5), Num(2), Num(10)),
      RawRow("01/02/2024", "B", "ig", "feed", "MOBILE", "f", "a1",
             Num(100), Num(10), Num(1), Num(5), Num(2), Num(7))>>

\* the lists of at most n pool indices in non-decreasing order
IndexLists(n) ==
    UNION {{s \in [1..k -> 1..Len(RowPool)] : \A i \in 1..(k - 1) : s[i] <= s[i + 1]}
           : k \in 0..n}

\* the parsed file with the columns of schema and the pool rows idx
FileOf(schema, idx) ==
    DataFrame(schema.kcols, schema.mcols,
              [i \in 1..Len(idx) |->
                  [c \in schema.kcols \cup schema.mcols |-> RowPool[idx[i]][c]]])

\* the tolerances a table is reconciled against its own copy with
EngineThresholds == {0, 1, DefaultThreshold}

InitEngine ==
    /\ RootIdle
    /\ MatchIdle
    /\ NormIdle
    /\ ServicesIdle
    /\ \/ \E p \in SchemaPairs, gi \in IndexLists(1), fi \in IndexLists(1) :
             /\ threshold_percent = DefaultThreshold
             /\ growth_file = FileOf(p[1], gi)
             /\ gold_file = FileOf(p[2], fi)
       \/ \E p \in CoreSchemaPairs, gi \in IndexLists(MaxRows), fi \in IndexLists(MaxRows) :
             /\ threshold_percent = DefaultThreshold
             /\ growth_file = FileOf(p[1], gi)
             /\ gold_file = FileOf(p[2], fi)
       \/ \E p \in SchemaPairs, gi \in IndexLists(MaxRows) :
             /\ threshold_percent \in EngineThresholds
             /\ growth_file = FileOf(p[1], gi)
             /\ gold_file = growth_file
    /\ csv_df = None
    /\ fabric_df = None
    /\ raw_results = NoResults
    /\ outcome = "constructed"
    /\ summary = NoSummary

NextEngine == load_data \/ validate_all \/ get_summary_stats

SpecEngine == InitEngine /\ [][NextEngine]_vars

-----------------------------------------------------------------------------
(* Column-name normalization (_normalize_columns).  A column name is the   *)
(* list of its characters, so that lower() and the substring test of the   *)
(* keyword rules are computed on the characters.                           *)

UpperCase == <<"A", "B", "C", "D", "E", "F", "G", "H", "I", "J", "K", "L", "M",
               "N", "O", "P", "Q", "R", "S", "T", "U", "V", "W", "X", "Y", "Z">>

LowerCase == <<"a", "b", "c", "d", "e", "f", "g", "h", "i", "j", "k", "l", "m",
               "n", "o", "p", "q", "r", "s", "t", "u", "v", "w", "x", "y", "z">>

UpperSet == {UpperCase[i] : i \in 1..26}

LowerChar(ch) ==
    IF ch \in UpperSet
    THEN LowerCase[CHOOSE i \in 1..26 : UpperCase[i] = ch]
    ELSE ch

\* str.lower()
lower(name) == [i \in 1..Len(name) |-> LowerChar(name[i])]

\* kw in col, for two strings
Contains(kw, col) ==
    \E i \in 0..(Len(col) - Len(kw)) : SubSeq(col, i + 1, i + Len(kw)) = kw

\* x in list
InList(list, x) == \E i \in 1..Len(list) : list[i] = x

Min(S) == CHOOSE x \in S : \A y \in S : x <= y

\* list.index(x)
IndexOf(list, x) == Min({i \in 1..Len(list) : list[i] = x})

\* d[k] = v
Put(d, k, v) == [x \in (DOMAIN d) \cup {k} |-> IF x = k THEN v ELSE d[x]]

\* d.get(k, k)
GetOrSelf(d, k) == IF k \in DOMAIN d THEN d[k] ELSE k

\* the rules dict of _normalize_columns, in its order; a name is the list of
\* its characters
rules ==
    <<[name |-> <<"c", "o", "s", "t">>,
       keywords |-> <<<<"c", "o", "s", "t">>,
                      <<"s", "p", "e", "n", "d">>,
                      <<"a", "m", "o", "u", "n", "t">>,
                      <<"p", "r", "i", "c", "e">>,
                      <<"t", "o", "t", "a", "l", "_", "c", "o", "s", "t">>,
                      <<"a", "m", "o", "u", "n", "t", " ", "s", "p", "e", "n", "t">>,
                      <<"a", "m", "o", "u", "n", "t", " ", "s", "p", "e", "n", "t", " ", "(", "i", "n", "r", ")">>,
                      <<"s", "p", "e", "n", "d", "_", "c", "o", "s", "t">>,
                      <<"i", "n", "v", "e", "s", "t", "m", "e", "n", "t">>>>],
      [name |-> <<"i", "m", "p", "r", "e", "s", "s", "i", "o", "n", "s">>,
       keywords |-> <<<<"i", "m", "p", "r", "e", "s", "s", "i", "o", "n", "s">>,
                      <<"i", "m", "p", "r">>,
                      <<"i", "m", "p", "r", ".">>,
                      <<"v", "i", "e", "w", "s">>,
                      <<"i", "m", "p", "r", "e", "s", "s", "i", "o", "n">>,
                      <<"i", "m", "p">>>>],
      [name |-> <<"c", "l", "i", "c", "k", "s">>,
       keywords |-> <<<<"c", "l", "i", "c", "k", "s">>,
                      <<"c", "l", "i", "c", "k">>,
                      <<"t", "o", "t", "a", "l", "_", "c", "l", "i", "c", "k", "s">>,
                      <<"l", "i", "n", "k", " ", "c", "l", "i", "c", "k", "s">>,
                      <<"c", "l", "i", "c", "k", "s", " ", "(", "a", "l", "l", ")">>,
                      <<"o", "u", "t", "b", "o", "u", "n", "d", " ", "c", "l", "i", "c", "k", "s">>>>],
      [name |-> <<"c", "a", "m", "p", "a", "i", "g", "n", "_", "n", "a", "m", "e">>,
       keywords |-> <<<<"c", "a", "m", "p", "a", "i", "g", "n", "_", "n", "a", "m", "e">>,
                      <<"c", "a", "m", "p", "a", "i", "g", "n">>,
                      <<"c", "a", "m", "p", "a", "i", "g", "n", " ", "n", "a", "m", "e">>,
                      <<"c", "a", "m", "p", "a", "i", "g", "n", "n", "a", "m", "e", "s">>,
                      <<"c", "a", "m", "p", "a", "i", "g", "n", "_", "i", "d">>,
                      <<"a", "d", " ", "s", "e", "t", " ", "n", "a", "m", "e">>,
                      <<"a", "d", " ", "s", "e", "t">>>>],
      [name |-> <<"d", "a", "y">>,
       keywords |-> <<<<"d", "a", "y">>,
                      <<"d", "a", "t", "e">>,
                      <<"d", "t">>,
                      <<"t", "i", "m", "e", "s", "t", "a", "m", "p">>,
                      <<"r", "e", "p", "o", "r", "t", "i", "n", "g", " ", "s", "t", "a", "r", "t", "s">>,
                      <<"r", "e", "p", "o", "r", "t", "i", "n", "g", " ", "e", "n", "d", "s">>,
                      <<"p", "e", "r", "i", "o", "d">>,
                      <<"m", "o", "n", "t", "h">>>>],
      [name |-> <<"g", "e", "n", "d", "e", "r">>,
       keywords |-> <<<<"g", "e", "n", "d", "e", "r">>,
                      <<"s", "e", "x">>,
                      <<"c", "o", "n", "s", "u", "m", "e", "r", "_", "g", "e", "n", "d", "e", "r">>>>],
      [name |-> <<"a", "g", "e">>,
       keywords |-> <<<<"a", "g", "e">>,
                      <<"a", "g", "e", "_", "r", "a", "n", "g", "e">>,
                      <<"a", "g", "e", "r", "a", "n", "g", "e">>,
                      <<"a", "g", "e", " ", "r", "a", "n", "g", "e">>,
                      <<"c", "o", "n", "s", "u", "m", "e", "r", "_", "a", "g", "e">>>>],
      [name |-> <<"p", "l", "a", "t", "f", "o", "r", "m">>,
       keywords |-> <<<<"p", "l", "a", "t", "f", "o", "r", "m">>,
                      <<"p", "u", "b", "l", "i", "s", "h", "e", "r", "_", "p", "l", "a", "t", "f", "o", "r", "m">>>>],
      [name |-> <<"p", "l", "a", "c", "e", "m", "e", "n", "t">>,
       keywords |-> <<<<"p", "l", "a", "c", "e", "m", "e", "n", "t">>,
                      <<"p", "l", "a", "c", "e", "m", "e", "n", "t", "_", "n", "a", "m", "e">>,
                      <<"i", "m", "p", "r", "e", "s", "s", "i", "o", "n", "_", "d", "e", "v", "i", "c", "e">>>>],
      [name |-> <<"d", "e", "v", "i", "c", "e">>,
       keywords |-> <<<<"d", "e", "v", "i", "c", "e">>,
                      <<"d", "e", "v", "i", "c", "e", "_", "t", "y", "p", "e">>,
                      <<"d", "e", "v", "i", "c", "e", " ", "t", "y", "p", "e">>>>],
      [name |-> <<"r", "e", "a", "c", "h">>,
       keywords |-> <<<<"r", "e", "a", "c", "h">>,
                      <<"t", "o", "t", "a", "l", "_", "r", "e", "a", "c", "h">>,
                      <<"u", "n", "i", "q", "u", "e", "_", "r", "e", "a", "c", "h">>>>],
      [name |-> <<"p", "u", "r", "c", "h", "a", "s", "e", "s">>,
       keywords |-> <<<<"p", "u", "r", "c", "h", "a", "s", "e", "s">>,
                      <<"p", "u", "r", "c", "h", "a", "s", "e", "s", "_", "c", "o", "n", "v", "e", "r", "s", "i", "o", "n", "s">>,
                      <<"c", "o", "n", "v", "e", "r", "s", "i", "o", "n", "s">>,
                      <<"p", "u", "r", "c", "h", "a", "s", "e">>,
                      <<"t", "o", "t", "a", "l", "_", "p", "u", "r", "c", "h", "a", "s", "e", "s">>,
                      <<"p", "u", "r", "c", "h", "a", "s", "e", "s", "_", "t", "o", "t", "a", "l">>>>],
      [name |-> <<"c", "o", "n", "v", "e", "r", "s", "i", "o", "n", "_", "v", "a", "l", "u", "e">>,
       keywords |-> <<<<"c", "o", "n", "v", "e", "r", "s", "i", "o", "n", "_", "v", "a", "l", "u", "e">>,
                      <<"p", "u", "r", "c", "h", "a", "s", "e", "s", " ", "c", "o", "n", "v", "e", "r", "s", "i", "o", "n", " ", "v", "a", "l", "u", "e">>,
                      <<"p", "u", "r", "c", "h", "a", "s", "e", "_", "v", "a", "l", "u", "e">>,
                      <<"t", "o", "t", "a", "l", "_", "c", "o", "n", "v", "e", "r", "s", "i", "o", "n", "_", "v", "a", "l", "u", "e">>,
                      <<"c", "o", "n", "v", "_", "v", "a", "l", "u", "e">>,
                      <<"v", "a", "l", "u", "e">>>>]>>

\* current_cols = [str(c).lower() for c in df.columns]
current_cols(cols) == [i \in 1..Len(cols) |-> lower(cols[i])]

\* the loop over the items of a user mapping (target, source): the first
\* column equal to the source, case-insensitively, is renamed to the target
RECURSIVE ApplyMappings(_, _, _, _)
ApplyMappings(cols, mapping, renamed, mapped) ==
    IF mapping = <<>> THEN [renamed_cols |-> renamed, already_mapped_targets |-> mapped]
    ELSE LET target_col == Head(mapping)[1]
             source_col == Head(mapping)[2]
             hits == {i \in 1..Len(cols) : lower(cols[i]) = lower(source_col)}
         IN  IF source_col # <<>> /\ hits # {}
             THEN ApplyMappings(cols, Tail(mapping),
                                Put(renamed, cols[Min(hits)], target_col),
                                mapped \cup {target_col})
             ELSE ApplyMappings(cols, Tail(mapping), renamed, mapped)

\* one iteration of `for standard_name, keywords in rules.items()`
AutoDetect(cols, rule, renamed, mapped) ==
    LET cur     == current_cols(cols)
        exactKw == {k \in 1..Len(rule.keywords) : InList(cur, lower(rule.keywords[k]))}
        partKw  == {k \in 1..Len(rule.keywords) :
                       \E i \in 1..Len(cols) :
                           Contains(lower(rule.keywords[k]), cur[i])}
    IN  IF rule.name \in mapped \/ InList(cur, rule.name) THEN renamed
        ELSE IF exactKw # {}
        THEN LET kw == lower(rule.keywords[Min(exactKw)])
             IN  Put(renamed, cols[IndexOf(cur, kw)], rule.name)
        ELSE IF partKw # {}
        THEN LET kw == lower(rule.keywords[Min(partKw)])
                 i  == Min({j \in 1..Len(cols) : Contains(kw, cur[j])})
             IN  Put(renamed, cols[i], rule.name)
        ELSE renamed

\* df.rename(columns=renamed_cols)
Rename(cols, renamed) == [i \in 1..Len(cols) |-> GetOrSelf(renamed, cols[i])]

RenameStep == Len(rules) + 1

\* the user mappings of the Growth table applied to whichever table is current
NormOverrides_growth_mappings_for_both ==
    /\ norm_pc.df \in {Growth, Gold}
    /\ norm_pc.step = 0
    /\ LET res == ApplyMappings(columns[norm_pc.df], custom_column_mappings, EmptyDict, {})
       IN  /\ renamed_cols' = res.renamed_cols
           /\ already_mapped_targets' = res.already_mapped_targets
    /\ norm_pc' = [norm_pc EXCEPT !.step = 1]
    /\ UNCHANGED <<threshold_percent, serviceVars, rootVars, matchVars, engineVars, columns,
                   custom_column_mappings, gold_column_mappings, norm_pass>>

\* the user mappings are applied to the table of the iteration
NormOverrides ==
    /\ norm_pc.df \in {Growth, Gold}
    /\ norm_pc.step = 0
    /\ LET mapping == IF norm_pc.df = Growth THEN custom_column_mappings
                      ELSE gold_column_mappings
           res     == ApplyMappings(columns[norm_pc.df], mapping, EmptyDict, {})
       IN  /\ renamed_cols' = res.renamed_cols
           /\ already_mapped_targets' = res.already_mapped_targets
    /\ norm_pc' = [norm_pc EXCEPT !.step = 1]
    /\ UNCHANGED <<threshold_percent, serviceVars, rootVars, matchVars, engineVars, columns,
                   custom_column_mappings, gold_column_mappings, norm_pass>>

\* the auto-detection of one standard name
NormRule ==
    /\ norm_pc.df \in {Growth, Gold}
    /\ norm_pc.step \in 1..Len(rules)
    /\ renamed_cols' = AutoDetect(columns[norm_pc.df], rules[norm_pc.step],
                                  renamed_cols, already_mapped_targets)
    /\ norm_pc' = [norm_pc EXCEPT !.step = @ + 1]
    /\ UNCHANGED <<threshold_percent, serviceVars, rootVars, matchVars, engineVars, columns,
                   custom_column_mappings, gold_column_mappings,
                   already_mapped_targets, norm_pass>>

\* the columns are renamed and the loop moves to the next table
NormRename ==
    /\ norm_pc.df \in {Growth, Gold}
    /\ norm_pc.step = RenameStep
    /\ columns' = [columns EXCEPT ![norm_pc.df] = Rename(@, renamed_cols)]
    /\ renamed_cols' = EmptyDict
    /\ already_mapped_targets' = {}
    /\ norm_pc' = [df |-> norm_pc.df + 1, step |-> 0]
    /\ UNCHANGED <<threshold_percent, serviceVars, rootVars, matchVars, engineVars,
                   custom_column_mappings, gold_column_mappings, norm_pass>>

\* _normalize_columns is run once more on the tables it produced
NormAgain ==
    /\ norm_pc.df = NoTable
    /\ norm_pass = 1
    /\ norm_pass' = 2
    /\ norm_pc' = [df |-> Growth, step |-> 0]
    /\ UNCHANGED <<threshold_percent, serviceVars, rootVars, matchVars, engineVars, columns,
                   custom_column_mappings, gold_column_mappings, renamed_cols,
                   already_mapped_targets>>

-----------------------------------------------------------------------------
(* Normalization on bounded inputs.                                        *)

n_amount == <<"a", "m", "o", "u", "n", "t">>

n_impression_device ==
    <<"i", "m", "p", "r", "e", "s", "s", "i", "o", "n", "_", "d", "e", "v", "i", "c", "e">>

n_my_imp == <<"m", "y", " ", "i", "m", "p">>

n_cost == <<"c", "o", "s", "t">>

n_views == <<"v", "i", "e", "w", "s">>

n_date == <<"d", "a", "t", "e">>

n_notes == <<"n", "o", "t", "e", "s">>

n_Views == <<"V", "i", "e", "w", "s">>

n_conversion_value ==
    <<"c", "o", "n", "v", "e", "r", "s", "i", "o", "n", "_", "v", "a", "l", "u", "e">>

n_day == <<"d", "a", "y">>

\* the column names the parsed files are drawn from (lower case, stripped)
ColumnNames == {n_amount, n_impression_device, n_my_imp, n_cost, n_views, n_date, n_notes}

\* the lists of at most n distinct column names
ColumnLists(n) ==
    UNION {{s \in [1..k -> ColumnNames] : \A i, j \in 1..k : i # j => s[i] # s[j]}
           : k \in 0..n}

\* the Growth mappings (target, source) a caller may pass
GrowthMappings ==
    {<<>>,
     <<<<n_cost, n_Views>>>>,
     <<<<n_conversion_value, n_amount>>>>,
     <<<<n_day, n_notes>>, <<n_cost, <<>>>>>>}

GoldMappings == {<<>>, <<<<n_cost, n_amount>>>>}

GoldColumnLists ==
    {<<n_date, n_cost>>, <<n_amount, n_impression_device>>, <<n_amount, n_cost>>}

InitNorm ==
    /\ threshold_percent = DefaultThreshold
    /\ RootIdle
    /\ MatchIdle
    /\ EngineIdle
    /\ ServicesIdle
    /\ \E g \in ColumnLists(MaxCols), f \in GoldColumnLists : columns = <<g, f>>
    /\ custom_column_mappings \in GrowthMappings
    /\ gold_column_mappings \in GoldMappings
    /\ renamed_cols = EmptyDict
    /\ already_mapped_targets = {}
    /\ norm_pc = [df |-> Growth, step |-> 0]
    /\ norm_pass = 1

NextNorm == NormOverrides \/ NormRule \/ NormRename \/ NormAgain

SpecNorm == InitNorm /\ [][NextNorm]_vars

-----------------------------------------------------------------------------
(* The match rule on bounded inputs.                                       *)

\* the values of the scenario cost=[100,200,300] vs cost=[105,200,290]
ScenarioNums == {97, 100, 103, 105, 200, 290, 300, -100, -97}

ScenarioCsv == <<Num(100), Num(200), Num(300)>>

ScenarioFab == <<Num(105), Num(200), Num(290)>>

MatchVals == {NaN} \cup {Num(x) : x \in ScenarioNums \cup (-MaxVal..MaxVal)}

ColVals == {NaN, Num(-100), Num(0), Num(100), Num(103)}

Tolerances == 0..MaxTol

SeqsOf(S, n) == [1..n -> S]

MatchColumns ==
    SeqsOf(MatchVals, 1) \cup UNION {SeqsOf(ColVals, n) : n \in 2..MaxLen}

InitMatch ==
    /\ threshold_percent \in Tolerances
    /\ RootIdle
    /\ \/ /\ s_csv \in MatchColumns
          /\ s_fab \in SeqsOf(IF Len(s_csv) = 1 THEN MatchVals ELSE ColVals, Len(s_csv))
       \/ /\ s_csv = ScenarioCsv
          /\ s_fab = ScenarioFab
    /\ scalar_res = NotRun
    /\ vec_res = NotRun
    /\ EngineIdle
    /\ NormIdle
    /\ ServicesIdle

\* the rule evaluated one pair at a time
RunCheckMatch ==
    /\ scalar_res = NotRun
    /\ scalar_res' = [i \in 1..Len(s_csv) |->
                         _check_match(s_csv[i], s_fab[i], threshold_percent)]
    /\ UNCHANGED <<threshold_percent, serviceVars, rootVars, s_csv, s_fab, vec_res, engineVars, normVars>>

\* the rule evaluated across the column
RunVectorizedMatch ==
    /\ vec_res = NotRun
    /\ vec_res' = _vectorized_match(s_csv, s_fab, threshold_percent)
    /\ UNCHANGED <<threshold_percent, serviceVars, rootVars, s_csv, s_fab, scalar_res, engineVars, normVars>>

NextMatch == RunCheckMatch \/ RunVectorizedMatch

SpecMatch == InitMatch /\ [][NextMatch]_vars

-----------------------------------------------------------------------------
(* The root-cause engine (services/root_cause_engine.py).  Its tables are  *)
(* RootFrames; a root cause is [type, evidence, confidence] (the           *)
(* description text repeats the evidence and is left out).                 *)

RECURSIVE RowCount(_)
RowCount(runs) == IF runs = <<>> THEN 0 ELSE Head(runs).n + RowCount(Tail(runs))

\* len(df)
len(df) == RowCount(df.runs)

\* the distinct rows of df
RowsOf(df) == {df.runs[i].row : i \in 1..Len(df.runs)}

\* how many rows of df equal r
Occurrences(df, r) ==
    LET isR(run) == run.row = r
    IN  RowCount(SelectSeq(df.runs, isR))

\* df.duplicated().sum(): the rows equal to an earlier row
duplicated_sum(df) == len(df) - Cardinality(RowsOf(df))

\* df[df.duplicated(keep=False)].head(k): the first k rows of those that
\* occur more than once
RECURSIVE HeadOfRepeated(_, _, _)
HeadOfRepeated(runs, repeated, k) ==
    IF k = 0 \/ runs = <<>> THEN <<>>
    ELSE IF Head(runs).row \in repeated
         THEN LET take == Min({Head(runs).n, k})
              IN  [i \in 1..take |-> Head(runs).row]
                      \o HeadOfRepeated(Tail(runs), repeated, k - take)
         ELSE HeadOfRepeated(Tail(runs), repeated, k)

\* the strings and the timestamps a set can hold, each in the order of the
\* hashes of this process
StrHashOrder == <<"A", "B", "C", "D", "E", "F", "G">>

TimestampHashOrder ==
    <<[date |-> "2024-01-01", time |-> "00:00:00"],
      [date |-> "2024-01-02", time |-> "00:00:00"],
      [date |-> "2024-01-03", time |-> "00:00:00"],
      [date |-> "2024-01-04", time |-> "00:00:00"],
      [date |-> "2024-01-05", time |-> "00:00:00"],
      [date |-> "2024-01-06", time |-> "00:00:00"]>>

\* list(S) for a set S of values of hashes: its elements in the iteration
\* order of the process
list(S, hashes, order) ==
    LET held == {i \in 1..Len(hashes) : hashes[i] \in S}
        at(k) == CHOOSE i \in held :
                     Cardinality({j \in held : IF order = "ascending" THEN j < i ELSE j > i})
                         = k - 1
    IN  [k \in 1..Cardinality(held) |-> hashes[at(k)]]

\* xs[:k]
Take(xs, k) == SubSeq(xs, 1, Min({k, Len(xs)}))

\* pd.to_datetime of a normalized day
to_datetime(day) == [date |-> day, time |-> "00:00:00"]

\* str(d) of a timestamp
str(d) == <<d.date, d.time>>

\* RootCauseEngine._detect_duplicates that looks at the Gold table's count
_detect_duplicates_on_fabric(g, f) ==
    LET growth_dupes == duplicated_sum(g)
        fabric_dupes == duplicated_sum(f)
        repeated     == {r \in RowsOf(g) : Occurrences(g, r) > 1}
    IN  IF fabric_dupes > 0
        THEN <<[type |-> "duplicate_records",
                evidence |-> [growth_duplicates |-> growth_dupes,
                              fabric_duplicates |-> fabric_dupes,
                              sample_duplicates |-> HeadOfRepeated(g.runs, repeated, 3)],
                confidence |-> Frac(95, 100)]>>
        ELSE <<>>

\* RootCauseEngine._detect_duplicates: what it appends to root_causes
_detect_duplicates(g, f) ==
    LET growth_dupes == duplicated_sum(g)
        fabric_dupes == duplicated_sum(f)
        repeated     == {r \in RowsOf(g) : Occurrences(g, r) > 1}
    IN  IF growth_dupes > 0
        THEN <<[type |-> "duplicate_records",
                evidence |-> [growth_duplicates |-> growth_dupes,
                              fabric_duplicates |-> fabric_dupes,
                              sample_duplicates |-> HeadOfRepeated(g.runs, repeated, 3)],
                confidence |-> Frac(95, 100)]>>
        ELSE <<>>

\* max(a, b)
max(a, b) == IF a >= b THEN a ELSE b

\* RootCauseEngine._detect_grain_mismatch firing from 10 percent on
_detect_grain_mismatch_from_10(g, f) ==
    LET growth_rows == len(g)
        fabric_rows == len(f)
        row_diff_pct == Frac(Abs(growth_rows - fabric_rows) * 100,
                             max(growth_rows, fabric_rows))
    IN  IF max(growth_rows, fabric_rows) = 0
        THEN [raised |-> TRUE, causes |-> <<>>]
        ELSE IF row_diff_pct.n >= 10 * row_diff_pct.d
        THEN [raised |-> FALSE,
              causes |-> <<[type |-> "grain_mismatch",
                            evidence |-> [growth_rows |-> growth_rows,
                                          fabric_rows |-> fabric_rows,
                                          difference_pct |-> round2(row_diff_pct)],
                            confidence |-> Frac(80, 100)]>>]
        ELSE [raised |-> FALSE, causes |-> <<>>]

\* RootCauseEngine._detect_grain_mismatch: what it appends, or that the
\* division by max(0, 0) raised ZeroDivisionError
_detect_grain_mismatch(g, f) ==
    LET growth_rows == len(g)
        fabric_rows == len(f)
        row_diff_pct == Frac(Abs(growth_rows - fabric_rows) * 100,
                             max(growth_rows, fabric_rows))
    IN  IF max(growth_rows, fabric_rows) = 0
        THEN [raised |-> TRUE, causes |-> <<>>]
        ELSE IF ~FracLeq(row_diff_pct, 10)
        THEN [raised |-> FALSE,
              causes |-> <<[type |-> "grain_mismatch",
                            evidence |-> [growth_rows |-> growth_rows,
                                          fabric_rows |-> fabric_rows,
                                          difference_pct |-> round2(row_diff_pct)],
                            confidence |-> Frac(80, 100)]>>]
        ELSE [raised |-> FALSE, causes |-> <<>>]

\* RootCauseEngine._detect_date_shift without the [:3] of the samples
_detect_date_shift_all_dates(g, f, order) ==
    IF "day" \notin g.columns \/ "day" \notin f.columns THEN <<>>
    ELSE LET growth_dates == {to_datetime(r.day) : r \in RowsOf(g)}
             fabric_dates == {to_datetime(r.day) : r \in RowsOf(f)}
             growth_only  == growth_dates \ fabric_dates
             fabric_only  == fabric_dates \ growth_dates
             strs(ds)     == [i \in 1..Len(ds) |-> str(ds[i])]
         IN  IF Cardinality(growth_only) > 0 \/ Cardinality(fabric_only) > 0
             THEN <<[type |-> "date_shift",
                     evidence |-> [growth_only_dates |-> Cardinality(growth_only),
                                   fabric_only_dates |-> Cardinality(fabric_only),
                                   sample_growth_only |->
                                       strs(list(growth_only, TimestampHashOrder, order)),
                                   sample_fabric_only |->
                                       strs(list(fabric_only, TimestampHashOrder, order))],
                     confidence |-> Frac(75, 100)]>>
             ELSE <<>>

\* RootCauseEngine._detect_date_shift
_detect_date_shift(g, f, order) ==
    IF "day" \notin g.columns \/ "day" \notin f.columns THEN <<>>
    ELSE LET growth_dates == {to_datetime(r.day) : r \in RowsOf(g)}
             fabric_dates == {to_datetime(r.day) : r \in RowsOf(f)}
             growth_only  == growth_dates \ fabric_dates
             fabric_only  == fabric_dates \ growth_dates
             strs(ds)     == [i \in 1..Len(ds) |-> str(ds[i])]
         IN  IF Cardinality(growth_only) > 0 \/ Cardinality(fabric_only) > 0
             THEN <<[type |-> "date_shift",
                     evidence |-> [growth_only_dates |-> Cardinality(growth_only),
                                   fabric_only_dates |-> Cardinality(fabric_only),
                                   sample_growth_only |->
                                       strs(Take(list(growth_only, TimestampHashOrder, order), 3)),
                                   sample_fabric_only |->
                                       strs(Take(list(fabric_only, TimestampHashOrder, order), 3))],
                     confidence |-> Frac(75, 100)]>>
             ELSE <<>>

\* RootCauseEngine._detect_missing_campaigns without the [:5] of the samples
_detect_missing_campaigns_all_names(g, f, order) ==
    IF "campaign_name" \notin g.columns \/ "campaign_name" \notin f.columns THEN <<>>
    ELSE LET growth_camps == {r.campaign_name : r \in RowsOf(g)}
             fabric_camps == {r.campaign_name : r \in RowsOf(f)}
             growth_only  == growth_camps \ fabric_camps
             fabric_only  == fabric_camps \ growth_camps
         IN  IF Cardinality(growth_only) > 0 \/ Cardinality(fabric_only) > 0
             THEN <<[type |-> "missing_campaigns",
                     evidence |-> [growth_only |-> list(growth_only, StrHashOrder, order),
                                   fabric_only |-> list(fabric_only, StrHashOrder, order)],
                     confidence |-> Frac(90, 100)]>>
             ELSE <<>>

\* RootCauseEngine._detect_missing_campaigns
_detect_missing_campaigns(g, f, order) ==
    IF "campaign_name" \notin g.columns \/ "campaign_name" \notin f.columns THEN <<>>
    ELSE LET growth_camps == {r.campaign_name : r \in RowsOf(g)}
             fabric_camps == {r.campaign_name : r \in RowsOf(f)}
             growth_only  == growth_camps \ fabric_camps
             fabric_only  == fabric_camps \ growth_camps
         IN  IF Cardinality(growth_only) > 0 \/ Cardinality(fabric_only) > 0
             THEN <<[type |-> "missing_campaigns",
                     evidence |-> [growth_only |-> Take(list(growth_only, StrHashOrder, order), 5),
                                   fabric_only |-> Take(list(fabric_only, StrHashOrder, order), 5)],
                     confidence |-> Frac(90, 100)]>>
             ELSE <<>>

\* the biases list with an entry for a metric whose two values are equal
RECURSIVE Biases_with_equal(_)
Biases_with_equal(overall) ==
    IF overall = <<>> THEN <<>>
    ELSE (IF Head(overall).csv > Head(overall).fabric THEN <<"growth_higher">>
          ELSE IF Head(overall).fabric > Head(overall).csv THEN <<"fabric_higher">>
          ELSE <<"equal">>)
         \o Biases_with_equal(Tail(overall))

\* the biases list of _detect_systematic_bias
RECURSIVE Biases(_)
Biases(overall) ==
    IF overall = <<>> THEN <<>>
    ELSE (IF Head(overall).csv > Head(overall).fabric THEN <<"growth_higher">>
          ELSE IF Head(overall).fabric > Head(overall).csv THEN <<"fabric_higher">>
          ELSE <<>>)
         \o Biases(Tail(overall))

\* RootCauseEngine._detect_systematic_bias
_detect_systematic_bias(results) ==
    IF "overall" \notin DOMAIN results THEN <<>>
    ELSE LET biases == Biases(results["overall"])
         IN  IF Len(biases) >= 2 /\ Cardinality(ColSet(biases)) = 1
             THEN <<[type |-> "systematic_bias",
                     evidence |-> [direction |-> biases[1],
                                   affected_metrics |-> Len(biases)],
                     confidence |-> Frac(85, 100)]>>
             ELSE <<>>

\* the rules of analyze run in the order systematic bias first
RunRules_bias_first(g, f, results, order) ==
    LET grain == _detect_grain_mismatch(g, f)
    IN  IF grain.raised
        THEN [raised |-> TRUE, causes |-> _detect_duplicates(g, f)]
        ELSE [raised |-> FALSE,
              causes |-> _detect_systematic_bias(results)
                             \o _detect_duplicates(g, f)
                             \o grain.causes
                             \o _detect_date_shift(g, f, order)
                             \o _detect_missing_campaigns(g, f, order)]

\* the five rules of analyze in their order: the list they build, and whether
\* the second one raised (the later rules then do not run)
RunRules(g, f, results, order) ==
    LET grain == _detect_grain_mismatch(g, f)
    IN  IF grain.raised
        THEN [raised |-> TRUE, causes |-> _detect_duplicates(g, f)]
        ELSE [raised |-> FALSE,
              causes |-> _detect_duplicates(g, f)
                             \o grain.causes
                             \o _detect_date_shift(g, f, order)
                             \o _detect_missing_campaigns(g, f, order)
                             \o _detect_systematic_bias(results)]

MaxCalls == 2

\* RootCauseEngine.analyze: root_causes is bound to a new list, the rules
\* append to it, and that list is returned
analyze ==
    /\ root_outcome # "none"
    /\ Len(calls) < MaxCalls
    /\ Len(heap) <= 2 * MaxCalls
    /\ LET res == RunRules(rc_growth_df, rc_fabric_df, validation_results, hash_order)
       IN  /\ heap' = Append(heap, res.causes)
           /\ root_causes' = Len(heap) + 1
           /\ IF res.raised
              THEN /\ root_outcome' = "ZeroDivisionError"
                   /\ UNCHANGED calls
              ELSE /\ root_outcome' = "returned"
                   /\ calls' = Append(calls, [arg      |-> validation_results,
                                              process  |-> hash_order,
                                              list     |-> Len(heap) + 1,
                                              returned |-> res.causes])
    /\ UNCHANGED <<threshold_percent, serviceVars, matchVars, engineVars, normVars,
                   rc_growth_df, rc_fabric_df, validation_results, hash_order>>

\* RootCauseEngine.__init__ on the same tables in another process of the
\* service, whose str hashes are seeded anew
construct_in_new_process ==
    /\ root_outcome = "returned"
    /\ Len(calls) < MaxCalls
    /\ hash_order' \in {"ascending", "descending"} \ {hash_order}
    /\ heap' = Append(heap, <<>>)
    /\ root_causes' = Len(heap) + 1
    /\ root_outcome' = "constructed"
    /\ UNCHANGED <<threshold_percent, serviceVars, matchVars, engineVars, normVars,
                   rc_growth_df, rc_fabric_df, validation_results, calls>>

-----------------------------------------------------------------------------
(* The root-cause engine on bounded inputs.                                *)

MaxRuns == 2

CampaignNames == <<"A", "B", "C", "D", "E", "F", "G">>

\* the day of the rows of each campaign: A and B share a day
DayOfCampaign ==
    [c \in ColSet(CampaignNames) |->
        CASE c \in {"A", "B"} -> "2024-01-01"
          [] c = "C" -> "2024-01-02"
          [] c = "D" -> "2024-01-03"
          [] c = "E" -> "2024-01-04"
          [] c = "F" -> "2024-01-05"
          [] c = "G" -> "2024-01-06"]

RootColumns == {"day", "campaign_name", "cost"}

\* the row of campaign c, with the columns cols
RootRow(c, cols) ==
    [col \in cols |->
        CASE col = "day" -> DayOfCampaign[c]
          [] col = "campaign_name" -> c
          [] col = "cost" -> 100]

\* one row for each of the campaigns lo..hi
CampaignTable(lo, hi) ==
    RootFrame(RootColumns,
              [i \in 1..(hi - lo + 1) |->
                  [row |-> RootRow(CampaignNames[lo + i - 1], RootColumns), n |-> 1]])

CampaignTables ==
    {CampaignTable(lo, hi) : lo \in 1..Len(CampaignNames), hi \in 0..Len(CampaignNames)}

\* the lengths of the runs of equal rows
RunLengths == {1, 2, 9, 10, 100, 120}

\* the tables of at most k runs of rows of campaigns A and C
RunTables(k) ==
    UNION {{RootFrame(RootColumns, runs) :
               runs \in [1..j -> [row : {RootRow("A", RootColumns), RootRow("C", RootColumns)},
                                  n : RunLengths]]}
           : j \in 0..k}

\* the tables of at most one row with the columns cols
SmallTables(cols) ==
    {RootFrame(cols, <<>>)}
        \cup {RootFrame(cols, <<[row |-> RootRow(c, cols), n |-> 1]>>) : c \in {"A", "C"}}

ColumnChoices ==
    {RootColumns, RootColumns \ {"day"}, RootColumns \ {"campaign_name"}, {"cost"}}

Entry(metric, csv, fabric) == [metric |-> metric, csv |-> csv, fabric |-> fabric]

\* the results dicts passed to analyze
ValidationResults ==
    {<<>>,
     [overall |-> <<>>],
     [overall |-> <<Entry("cost", 2, 1), Entry("clicks", 3, 1)>>],
     [overall |-> <<Entry("cost", 1, 2), Entry("clicks", 1, 3)>>],
     [overall |-> <<Entry("cost", 2, 1), Entry("clicks", 1, 3)>>],
     [overall |-> <<Entry("cost", 2, 1), Entry("clicks", 1, 1)>>],
     [overall |-> <<Entry("cost", 2, 1), Entry("impressions", 1, 1), Entry("clicks", 3, 1)>>]}

InitRoot ==
    /\ threshold_percent = DefaultThreshold
    /\ MatchIdle
    /\ EngineIdle
    /\ NormIdle
    /\ ServicesIdle
    /\ \/ /\ rc_growth_df \in CampaignTables
          /\ rc_fabric_df \in CampaignTables
          /\ validation_results = [overall |-> <<>>]
          /\ hash_order \in {"ascending", "descending"}
       \/ /\ rc_growth_df \in RunTables(MaxRuns)
          /\ rc_fabric_df \in RunTables(1)
          /\ validation_results = [overall |-> <<>>]
          /\ hash_order = "ascending"
       \/ \E gc \in ColumnChoices, fc \in ColumnChoices :
              /\ rc_growth_df \in SmallTables(gc)
              /\ rc_fabric_df \in SmallTables(fc)
              /\ validation_results \in ValidationResults
              /\ hash_order \in {"ascending", "descending"}
    /\ heap = <<<<>>>>
    /\ root_causes = 1
    /\ calls = <<>>
    /\ root_outcome = "constructed"

NextRoot == analyze \/ construct_in_new_process

SpecRoot == InitRoot /\ [][NextRoot]_vars

-----------------------------------------------------------------------------
(* Fix suggestions (FixSuggestionEngine).  A cause and a fix are dicts; a   *)
(* template text is named by its first line, and an f-string keeps the     *)
(* values it is formatted with.                                            *)

\* a template text and the values formatted into it
Text(first_line, values) == [text |-> first_line, values |-> values]

\* d.get(k, default)
Get(d, k, default) == IF k \in DOMAIN d THEN d[k] ELSE default

\* d.update(e)
Update(d, e) == [k \in (DOMAIN d) \cup (DOMAIN e) |-> IF k \in DOMAIN e THEN e[k] ELSE d[k]]

\* a function raised KeyError
KeyError == [raised |-> TRUE]

\* FixSuggestionEngine._fix_duplicates
_fix_duplicates(cause) ==
    [pandas_fix     |-> Text("# Remove duplicate rows from Growth CSV", <<>>),
     sql_equivalent |-> Text("-- In your source query, add DISTINCT", <<>>),
     prevention     |-> Text("Add a DISTINCT clause to your extraction query, ...", <<>>)]

\* FixSuggestionEngine._fix_grain_mismatch
_fix_grain_mismatch(cause) ==
    [pandas_fix     |-> Text("# If Growth is more granular, aggregate to match Fabric", <<>>),
     sql_equivalent |-> Text("-- Ensure both sources use the same GROUP BY", <<>>),
     prevention     |-> Text("Standardize aggregation level in both pipelines. ...", <<>>)]

\* FixSuggestionEngine._fix_date_shift
_fix_date_shift(cause) ==
    [pandas_fix     |-> Text("# Normalize dates to UTC and same format", <<>>),
     sql_equivalent |-> Text("-- Standardize timezone in queries", <<>>),
     prevention     |-> Text("Always extract dates in UTC. ...", <<>>)]

\* FixSuggestionEngine._fix_missing_campaigns
_fix_missing_campaigns(cause) ==
    LET growth_only == Get(cause.evidence, "growth_only", <<>>)
        fabric_only == Get(cause.evidence, "fabric_only", <<>>)
    IN  [pandas_fix     |-> Text("# Filter to common campaigns only",
                                 <<Take(growth_only, 3), Take(fabric_only, 3)>>),
         sql_equivalent |-> Text("-- Add campaign filter to align sources", <<>>),
         prevention     |-> Text("Implement campaign naming standards. ...", <<>>)]

\* 'growth' in direction, for the directions _detect_systematic_bias gives
growth_in(direction) == direction = "growth_higher"

\* FixSuggestionEngine._fix_systematic_bias; cause['evidence']['direction']
\* raises KeyError when the evidence has no direction
_fix_systematic_bias(cause) ==
    IF "direction" \notin DOMAIN cause.evidence THEN KeyError
    ELSE LET direction == cause.evidence["direction"]
         IN  [pandas_fix     |-> Text("# Investigate filter or calculation differences", <<>>),
              sql_equivalent |-> Text("-- Audit both queries for systematic differences", <<>>),
              prevention     |-> Text("{} is consistently higher. ...",
                                      <<IF growth_in(direction) THEN "Growth" ELSE "Fabric">>)]

\* the body of the loop of generate_fixes: the fix of one cause
FixOf(cause) ==
    LET fix == [root_cause_type |-> cause.type, description |-> cause.description]
        template ==
            CASE cause.type = "duplicate_records" -> _fix_duplicates(cause)
              [] cause.type = "grain_mismatch"    -> _fix_grain_mismatch(cause)
              [] cause.type = "date_shift"        -> _fix_date_shift(cause)
              [] cause.type = "missing_campaigns" -> _fix_missing_campaigns(cause)
              [] cause.type = "systematic_bias"   -> _fix_systematic_bias(cause)
              [] OTHER                            -> EmptyDict
    IN  IF template = KeyError THEN KeyError ELSE Update(fix, template)

\* generate_fixes leaving out the causes whose type has no template
generate_fixes_known_types_only(causes) ==
    LET known(cause) == cause.type \in {"duplicate_records", "grain_mismatch", "date_shift",
                                        "missing_campaigns", "systematic_bias"}
        kept == SelectSeq(causes, known)
    IN  [i \in 1..Len(kept) |-> FixOf(kept[i])]

\* FixSuggestionEngine.generate_fixes: the list of fixes
generate_fixes(causes) ==
    [i \in 1..Len(causes) |-> FixOf(causes[i])]

\* a call of FixSuggestionEngine.generate_fixes
RunGenerateFixes ==
    /\ fix_outcome = "none"
    /\ LET result == generate_fixes(fix_root_causes)
       IN  IF \E i \in 1..Len(result) : result[i] = KeyError
           THEN /\ fix_outcome' = "KeyError"
                /\ UNCHANGED fixes
           ELSE /\ fix_outcome' = "returned"
                /\ fixes' = result
    /\ UNCHANGED <<threshold_percent, matchVars, engineVars, normVars, rootVars, mapVars,
                   authVars, fix_root_causes>>

MaxCauses == 2

\* a cause as the rules of RootCauseEngine build it
Cause(type, evidence, confidence, description) ==
    [type |-> type, evidence |-> evidence, confidence |-> confidence,
     description |-> description]

\* the causes handed to generate_fixes: one or two of each type of
\* RootCauseEngine and one of a type generate_fixes does not know
CausePool ==
    {Cause("duplicate_records",
           [growth_duplicates |-> 2, fabric_duplicates |-> 0, sample_duplicates |-> <<>>],
           Frac(95, 100), "Growth CSV contains 2 duplicate rows, inflating totals."),
     Cause("grain_mismatch",
           [growth_rows |-> 3, fabric_rows |-> 2, difference_pct |-> Frac(3333, 100)],
           Frac(80, 100),
           "Row count differs by 33.3%, suggesting different aggregation levels or filters."),
     Cause("date_shift",
           [growth_only_dates |-> 1, fabric_only_dates |-> 0,
            sample_growth_only |-> <<"2024-01-02 00:00:00">>, sample_fabric_only |-> <<>>],
           Frac(75, 100),
           "Date ranges don't align perfectly - possible timezone shift or data lag."),
     Cause("missing_campaigns",
           [growth_only |-> <<"A", "B", "C", "D">>, fabric_only |-> <<>>],
           Frac(90, 100), "4 campaigns exist only in Growth, 0 only in Fabric."),
     Cause("missing_campaigns",
           [growth_only |-> <<>>, fabric_only |-> <<"E">>],
           Frac(90, 100), "0 campaigns exist only in Growth, 1 only in Fabric."),
     Cause("systematic_bias",
           [direction |-> "growth_higher", affected_metrics |-> 3],
           Frac(85, 100), "Growth consistently higher across 3 metrics - ..."),
     Cause("systematic_bias",
           [direction |-> "fabric_higher", affected_metrics |-> 2],
           Frac(85, 100), "Fabric consistently higher across 2 metrics - ..."),
     Cause("schema_drift", EmptyDict, Frac(50, 100), "a column changed its type")}

\* the lists of at most n causes
CauseLists(n) == UNION {[1..k -> CausePool] : k \in 0..n}

InitFixes ==
    /\ threshold_percent = DefaultThreshold
    /\ MatchIdle
    /\ EngineIdle
    /\ NormIdle
    /\ RootIdle
    /\ MapIdle
    /\ AuthIdle
    /\ fix_root_causes \in CauseLists(MaxCauses)
    /\ fixes = <<>>
    /\ fix_outcome = "none"

NextFixes == RunGenerateFixes

SpecFixes == InitFixes /\ [][NextFixes]_vars

-----------------------------------------------------------------------------
(* The column mapper (ColumnMapper).  A table is the list of its columns,  *)
(* each a name (the list of its characters) and a dtype.                   *)

\* the length of a longest common subsequence of two strings
RECURSIVE LCS(_, _)
LCS(a, b) ==
    IF a = <<>> \/ b = <<>> THEN 0
    ELSE IF Head(a) = Head(b) THEN 1 + LCS(Tail(a), Tail(b))
    ELSE max(LCS(Tail(a), b), LCS(a, Tail(b)))

\* int(round(n / d)) for n >= 0, d > 0: a tie goes to the even integer
intr(n, d) ==
    LET whole == n \div d
        rest  == n % d
    IN  IF 2 * rest > d \/ (2 * rest = d /\ whole % 2 = 1) THEN whole + 1 ELSE whole

\* fuzz.ratio(s1, s2): 100 for equal strings, 0 when one is empty, otherwise
\* 100 * 2 * M / T rounded, M the matched characters and T the two lengths
ratio(s1, s2) ==
    IF s1 = s2 THEN 100
    ELSE IF Len(s1) = 0 \/ Len(s2) = 0 THEN 0
    ELSE intr(100 * 2 * LCS(s1, s2), Len(s1) + Len(s2))

\* Python's None
NoneValue == <<"None">>

\* bool(x) of a string or None
Truthy(x) == x # NoneValue /\ x # <<>>

\* the keywords dict of _semantic_match, in its order
keywords ==
    <<[key |-> "cost",
       variants |-> <<<<"s", "p", "e", "n", "d">>,
                      <<"c", "o", "s", "t">>,
                      <<"a", "m", "o", "u", "n", "t">>,
                      <<"c", "p", "c">>>>],
      [key |-> "impressions",
       variants |-> <<<<"i", "m", "p", "r", "e", "s", "s", "i", "o", "n", "s">>,
                      <<"i", "m", "p", "r">>,
                      <<"v", "i", "e", "w", "s">>>>],
      [key |-> "clicks",
       variants |-> <<<<"c", "l", "i", "c", "k", "s">>,
                      <<"c", "l", "i", "c", "k">>>>],
      [key |-> "campaign",
       variants |-> <<<<"c", "a", "m", "p", "a", "i", "g", "n">>,
                      <<"c", "a", "m", "p">>,
                      <<"c", "a", "m", "p", "a", "i", "g", "n", "_", "n", "a", "m", "e">>>>],
      [key |-> "date",
       variants |-> <<<<"d", "a", "t", "e">>,
                      <<"d", "a", "y">>,
                      <<"t", "i", "m", "e", "s", "t", "a", "m", "p">>,
                      <<"d", "t">>>>]>>

\* any(v in name for v in variants)
AnyIn(variants, name) == \E i \in 1..Len(variants) : Contains(variants[i], name)

\* ColumnMapper._semantic_match: (80, candidate) for the first group the
\* column matches that a candidate matches too, the first such candidate
_semantic_match(col, candidates) ==
    LET col_lower == lower(col)
        hit(k)    == {c \in 1..Len(candidates) :
                         AnyIn(keywords[k].variants, lower(candidates[c]))}
        groups    == {k \in 1..Len(keywords) :
                         AnyIn(keywords[k].variants, col_lower) /\ hit(k) # {}}
    IN  IF groups = {} THEN <<0, NoneValue>>
        ELSE <<80, candidates[Min(hit(Min(groups)))]>>

\* the loop over fabric_cols for one g_col, from position i on, with
\* best = (best_match, best_score, method) so far
RECURSIVE ScanFabric(_, _, _, _, _)
ScanFabric(g_col, fabric_cols, i, best, thr) ==
    IF i > Len(fabric_cols) THEN best
    ELSE LET f_col == fabric_cols[i]
             score == ratio(lower(g_col), lower(f_col))
         IN  IF lower(g_col) = lower(f_col)
             THEN [best_match |-> f_col, best_score |-> 100, method |-> "exact"]
             ELSE IF score > best.best_score /\ score >= thr
             THEN ScanFabric(g_col, fabric_cols, i + 1,
                             [best_match |-> f_col, best_score |-> score, method |-> "fuzzy"],
                             thr)
             ELSE ScanFabric(g_col, fabric_cols, i + 1, best, thr)

\* the names of the columns of a table
NamesOf(df) == [i \in 1..Len(df) |-> df[i].name]

\* str(df[col].dtype)
DtypeOf(df, col) == df[IndexOf(NamesOf(df), col)].dtype

\* the body of the loop of auto_map over growth_cols: (best_match,
\* best_score, method) of one g_col
BestOf(g_col, fabric_cols, thr) ==
    LET scanned  == ScanFabric(g_col, fabric_cols, 1,
                               [best_match |-> NoneValue, best_score |-> 0,
                                method |-> NoneValue], thr)
        semantic == _semantic_match(g_col, fabric_cols)
    IN  IF ~Truthy(scanned.best_match) /\ semantic[1] >= thr
        THEN [best_match |-> semantic[2], best_score |-> semantic[1], method |-> "semantic"]
        ELSE scanned

\* ColumnMapper.auto_map: the mappings dict
auto_map(g_df, f_df, thr) ==
    LET growth_cols == NamesOf(g_df)
        fabric_cols == NamesOf(f_df)
        mapped      == {g \in ColSet(growth_cols) :
                           Truthy(BestOf(g, fabric_cols, thr).best_match)}
    IN  [g \in mapped |->
            LET best == BestOf(g, fabric_cols, thr)
            IN  [mapped_to   |-> best.best_match,
                 confidence  |-> best.best_score,
                 method      |-> best.method,
                 growth_type |-> DtypeOf(g_df, g),
                 fabric_type |-> DtypeOf(f_df, best.best_match)]]

\* a call of ColumnMapper.auto_map
RunAutoMap ==
    /\ map_outcome = "none"
    /\ mappings' = auto_map(mapper_growth_df, mapper_fabric_df, threshold)
    /\ map_outcome' = "returned"
    /\ UNCHANGED <<threshold_percent, matchVars, engineVars, normVars, rootVars, fixVars,
                   authVars, mapper_growth_df, mapper_fabric_df, threshold>>

MaxLeft == 2

MaxRight == 2

Column(name, dtype) == [name |-> name, dtype |-> dtype]

m_Cost == <<"C", "o", "s", "t">>

m_clicks == <<"c", "l", "i", "c", "k", "s">>

m_spend == <<"s", "p", "e", "n", "d">>

m_day == <<"d", "a", "y">>

m_id == <<"i", "d">>

m_cost == <<"c", "o", "s", "t">>

m_costs == <<"c", "o", "s", "t", "s">>

m_click == <<"c", "l", "i", "c", "k">>

m_clicky == <<"c", "l", "i", "c", "k", "y">>

m_amount == <<"a", "m", "o", "u", "n", "t">>

m_dt == <<"d", "t">>

\* the columns the Growth table is made of
GrowthColumnPool ==
    {Column(m_Cost, "float64"), Column(m_clicks, "int64"), Column(m_spend, "float64"),
     Column(m_day, "object"), Column(m_id, "int64")}

\* the columns the Gold table is made of
FabricColumnPool ==
    {Column(m_cost, "float64"), Column(m_costs, "object"), Column(m_click, "int64"),
     Column(m_clicky, "object"), Column(m_amount, "float64"), Column(m_dt, "object")}

\* the tables of at most n columns of a pool, no column twice
TablesOf(pool, n) ==
    UNION {{s \in [1..k -> pool] : \A i, j \in 1..k : i # j => s[i] # s[j]} : k \in 0..n}

\* the thresholds auto_map is called with
MapThresholds == {0, DefaultMapThreshold, 90}

InitMapper ==
    /\ threshold_percent = DefaultThreshold
    /\ MatchIdle
    /\ EngineIdle
    /\ NormIdle
    /\ RootIdle
    /\ FixIdle
    /\ AuthIdle
    /\ mapper_growth_df \in TablesOf(GrowthColumnPool, MaxLeft)
    /\ mapper_fabric_df \in TablesOf(FabricColumnPool, MaxRight)
    /\ threshold \in MapThresholds
    /\ mappings = EmptyDict
    /\ map_outcome = "none"

NextMapper == RunAutoMap

SpecMapper == InitMapper /\ [][NextMapper]_vars

-----------------------------------------------------------------------------
(* Sessions and bearer tokens (auth.py, session_db.py and the /auth         *)
(* endpoints of main.py).  Time is counted in ticks; a JWT is the record of *)
(* its claims and of the key that signed it; the sessions table maps a      *)
(* token (UNIQUE) to its row.  The service runs one event loop and no       *)
(* handler awaits, so a request is one step.                               *)

\* the lifetime of a token (ACCESS_TOKEN_EXPIRE_MINUTES), in ticks
ExpireTicks == 2

\* the last tick of the clock
MaxTime == 3

\* the most tokens ever issued
MaxLogins == 2

\* get_valid_users() with the default environment, passwords in plain
valid_users == [admin |-> "admin123", validator |-> "valid123"]

\* auth.verify_credentials
verify_credentials(username, password) ==
    /\ username \in DOMAIN valid_users
    /\ valid_users[username] = password

\* auth.create_access_token: jwt.encode of the claims sub and exp
create_access_token(sub, expire, key) == [sub |-> sub, exp |-> expire, key |-> key]

\* an Optional value: None, or a value
Nothing == <<>>

Some(x) == <<x>>

\* auth.verify_token: the payload, or None when jwt.decode raises JWTError (a
\* wrong signature, an exp in the past)
verify_token(token, key, at) ==
    IF token.key # key \/ token.exp < at THEN Nothing
    ELSE Some([sub |-> token.sub, exp |-> token.exp])

\* session_db.store_session: the table after the INSERT; the IntegrityError
\* of a token already stored is caught and the table stays as it is
store_session(db, token, username, expires_at) ==
    IF token \in DOMAIN db THEN db
    ELSE Put(db, token, [username |-> username, expires_at |-> expires_at])

\* DELETE FROM sessions WHERE username = (the user of the token)
delete_session_by_username(db, token) ==
    IF token \notin DOMAIN db THEN db
    ELSE [k \in {x \in DOMAIN db : db[x].username # db[token].username} |-> db[k]]

\* session_db.delete_session: the table after DELETE ... WHERE token = ?
delete_session(db, token) == [k \in (DOMAIN db) \ {token} |-> db[k]]

\* session_db.get_session: the row (None without a row or when it has
\* expired) and the table afterwards
get_session(db, token, at) ==
    IF token \notin DOMAIN db THEN [row |-> Nothing, db |-> db]
    ELSE IF at > db[token].expires_at
    THEN [row |-> Nothing, db |-> delete_session(db, token)]
    ELSE [row |-> Some(db[token]), db |-> db]

\* auth.get_current_user: the user, or the HTTPException raised, and the
\* table afterwards
get_current_user(db, token, key, at) ==
    LET session == get_session(db, token, at)
        payload == verify_token(token, key, at)
    IN  IF session.row = Nothing
        THEN [status |-> 401, detail |-> "Session expired or invalid", db |-> session.db]
        ELSE IF payload = Nothing
        THEN [status |-> 401, detail |-> "Invalid authentication credentials",
              db |-> session.db]
        ELSE [status |-> 200, username |-> payload[1].sub, token |-> token,
              db |-> session.db]

Response(endpoint, token, status) == [endpoint |-> endpoint, token |-> token, status |-> status]

\* the username and password pairs clients log in with
Credentials == {<<"admin", "admin123">>, <<"validator", "valid123">>,
                <<"admin", "valid123">>, <<"guest", "guest">>}

\* a token signed with a key the service does not have
ForgedToken == create_access_token("admin", MaxTime + ExpireTicks + 1, 0)

\* POST /auth/login.  The JWT's exp is taken from the clock before
\* expires_at is, and is cut to whole seconds, so expires_at is exp or later
login(username, password) ==
    IF ~verify_credentials(username, password)
    THEN /\ response' = Response("login", <<>>, 401)
         /\ UNCHANGED <<sessions, issued>>
    ELSE \E later \in {0, 1} :
            LET access_token == create_access_token(username, now + ExpireTicks, SECRET_KEY)
                expires_at   == now + ExpireTicks + later
            IN  /\ Cardinality(issued \cup {access_token}) <= MaxLogins
                /\ sessions' = store_session(sessions, access_token, username, expires_at)
                /\ issued' = issued \cup {access_token}
                /\ response' = Response("login", access_token, 200)

\* GET /auth/verify
verify_auth(token) ==
    LET current_user == get_current_user(sessions, token, SECRET_KEY, now)
    IN  /\ sessions' = current_user.db
        /\ response' = Response("verify", token, current_user.status)
        /\ UNCHANGED issued

\* POST /auth/logout
logout(token) ==
    LET current_user == get_current_user(sessions, token, SECRET_KEY, now)
    IN  /\ sessions' = IF current_user.status = 200
                       THEN delete_session(current_user.db, current_user.token)
                       ELSE current_user.db
        /\ response' = Response("logout", token, current_user.status)
        /\ UNCHANGED issued

\* the clock moves on
Tick ==
    /\ now < MaxTime
    /\ now' = now + 1
    /\ UNCHANGED <<SECRET_KEY, sessions, issued, response>>
    /\ UNCHANGED <<threshold_percent, matchVars, engineVars, normVars, rootVars, fixVars,
                   mapVars>>

Login ==
    /\ \E c \in Credentials : login(c[1], c[2])
    /\ UNCHANGED <<now, SECRET_KEY>>
    /\ UNCHANGED <<threshold_percent, matchVars, engineVars, normVars, rootVars, fixVars,
                   mapVars>>

VerifyAuth ==
    /\ \E token \in issued \cup {ForgedToken} : verify_auth(token)
    /\ UNCHANGED <<now, SECRET_KEY>>
    /\ UNCHANGED <<threshold_percent, matchVars, engineVars, normVars, rootVars, fixVars,
                   mapVars>>

Logout ==
    /\ \E token \in issued \cup {ForgedToken} : logout(token)
    /\ UNCHANGED <<now, SECRET_KEY>>
    /\ UNCHANGED <<threshold_percent, matchVars, engineVars, normVars, rootVars, fixVars,
                   mapVars>>

InitAuth ==
    /\ threshold_percent = DefaultThreshold
    /\ MatchIdle
    /\ EngineIdle
    /\ NormIdle
    /\ RootIdle
    /\ FixIdle
    /\ MapIdle
    /\ now = 0
    /\ SECRET_KEY = 1
    /\ sessions = EmptyDict
    /\ issued = {}
    /\ response = NoResponse

NextAuth == Login \/ VerifyAuth \/ Logout \/ Tick

SpecAuth == InitAuth /\ [][NextAuth]_vars

-----------------------------------------------------------------------------
(* Properties of the reconciliation (SpecEngine).                          *)

Segments == Dimensions \ {"overall"}

\* the Match Verdict rule as specified: false when a value is undefined,
\* a = 0 when b = 0, otherwise |a - b| / |b| * 100 <= t
MatchVerdict(a, b, t) ==
    /\ ~isna(a) /\ ~isna(b)
    /\ IF b.v = 0 THEN a.v = 0 ELSE Abs(a.v - b.v) * 100 <= t * Abs(b.v)

\* C5: in every segment row of every dimension perfect_match is true exactly
\* when cost, impressions and clicks each satisfy the Match Verdict rule on the
\* row's (csv, fab) values; no other metric of the row takes part.
C5_ConjunctionInvariant ==
    outcome = "validated" =>
        \A d \in Segments : \A i \in 1..Len(raw_results[d]) :
            LET row == raw_results[d][i]
            IN  row.perfect_match =
                    \A m \in ColSet(BaseMetrics) :
                        MatchVerdict(row.csv[m], row.fab[m], threshold_percent)

\* the keys of the groups of df over the key columns cols
GroupKeys(df, cols) ==
    {[c \in ColSet(cols) |-> df.rows[i][c]] :
        i \in {j \in 1..Len(df.rows) : \A c \in ColSet(cols) : df.rows[j][c] # NA}}

\* dimension d has been evaluated: validate_all returned and both tables have
\* the key columns of d
Evaluated(d) ==
    /\ outcome = "validated"
    /\ ColSet(DimCols(d)) \subseteq Columns(csv_df) \cap Columns(fabric_df)

AllZero(vals) == \A m \in DOMAIN vals : vals[m] = Num(0)

\* C6: for every evaluated dimension every key of the grouped Growth table or
\* of the grouped Gold table is the key of exactly one segment row, no row has
\* a key of neither, and a row whose key one side lacks has 0 (not undefined)
\* in every metric of that side.
C6_OuterJoinComplete ==
    \A d \in Segments :
        Evaluated(d) =>
            LET rows == raw_results[d]
                gk   == GroupKeys(csv_df, DimCols(d))
                fk   == GroupKeys(fabric_df, DimCols(d))
            IN  /\ \A k \in gk \cup fk :
                       Cardinality({i \in 1..Len(rows) : rows[i].key = k}) = 1
                /\ \A i \in 1..Len(rows) :
                       /\ rows[i].key \in gk \cup fk
                       /\ rows[i].key \notin gk => AllZero(rows[i].csv)
                       /\ rows[i].key \notin fk => AllZero(rows[i].fab)

\* a compound dimension was evaluated with a key only Growth has and a key
\* only Gold has
C6_Witness ==
    /\ Evaluated("by_camp_date")
    /\ \E k \in GroupKeys(csv_df, DimCols("by_camp_date")) :
           k \notin GroupKeys(fabric_df, DimCols("by_camp_date"))
    /\ \E k \in GroupKeys(fabric_df, DimCols("by_camp_date")) :
           k \notin GroupKeys(csv_df, DimCols("by_camp_date"))
    /\ \E i \in 1..Len(raw_results["by_platform"]) :
           AllZero(raw_results["by_platform"][i].fab)

\* validate_all has run on loaded tables
Validated == csv_df # None /\ outcome \in {"validated", "KeyError"}

\* C7: when a key column of a dimension is absent from the Growth table or
\* from the Gold table, validate_all raises nothing, that dimension's result
\* is the empty list and the other dimensions are evaluated.
C7_AbsentDimensionSkipped ==
    Validated =>
        \A d \in Segments :
            ~(ColSet(DimCols(d)) \subseteq Columns(csv_df) \cap Columns(fabric_df)) =>
                /\ outcome = "validated"
                /\ raw_results[d] = <<>>

\* C8 (tables lacking cost, impressions or clicks): validate_all on two loaded
\* tables that have every key column and lack a base metric returns a mapping
\* with one list per dimension instead of raising.
C8_NoBaseMetricsStillValid ==
    (/\ Validated
     /\ KeyColumns \subseteq Columns(csv_df) \cap Columns(fabric_df)
     /\ ~(ColSet(BaseMetrics) \subseteq Columns(csv_df) \cap Columns(fabric_df))) =>
        /\ outcome = "validated"
        /\ DOMAIN raw_results = Dimensions

\* C8 (before load_data): validate_all on an engine whose tables are not
\* loaded returns a mapping instead of raising.
C8_BeforeLoadStillValid == outcome # "ValueError"

\* the dimensions keyed by one column other than day
SingleKeyDimensions ==
    {"by_campaign", "by_platform", "by_placement", "by_device", "by_gender", "by_age"}

\* the dimension keyed by day and the dimensions keyed by several columns
DayAndCompoundDimensions ==
    {"by_date", "by_camp_date", "by_camp_gender", "by_date_gender_age"}

\* every numeric column present in both tables
CommonNumeric == csv_df.mcols \cap fabric_df.mcols

\* cost, impressions, clicks and the optional metrics present in both tables
BaseAndPresentOptional ==
    ColSet(BaseMetrics)
        \cup (ColSet(OptionalMetrics) \cap Columns(csv_df) \cap Columns(fabric_df))

\* C13: the metrics of 'overall' and of the rows of every single-key dimension
\* (by_campaign included) are the numeric columns present in both tables; the
\* metrics of the rows of by_date and of every compound dimension are cost,
\* impressions, clicks and the optional metrics present in both tables.
C13_MetricSetPerDimension ==
    outcome = "validated" =>
        /\ {raw_results["overall"][i].metric : i \in 1..Len(raw_results["overall"])}
               = CommonNumeric
        /\ \A d \in SingleKeyDimensions : \A i \in 1..Len(raw_results[d]) :
               DOMAIN raw_results[d][i].csv = CommonNumeric
        /\ \A d \in DayAndCompoundDimensions : \A i \in 1..Len(raw_results[d]) :
               DOMAIN raw_results[d][i].csv = BaseAndPresentOptional

\* the difference as specified: (csv - fab) / fab * 100, 0 when fab = 0
SignedDiffPct(c, f) == IF f.v # 0 THEN Frac((c.v - f.v) * 100, f.v) ELSE Frac(0, 1)

\* C14: every segment row of every dimension carries, for every metric of the
\* row, the signed percentage difference of its csv and fab values, and every
\* entry of 'overall' carries the one of its totals.
C14_DiffPctEverywhere ==
    outcome = "validated" =>
        /\ \A i \in 1..Len(raw_results["overall"]) :
               LET e == raw_results["overall"][i]
               IN  e.diff_pct = round2(SignedDiffPct(Num(e.csv), Num(e.fabric)))
        /\ \A d \in Segments : \A i \in 1..Len(raw_results[d]) :
               LET row == raw_results[d][i]
               IN  /\ DOMAIN row.diff_pct = DOMAIN row.csv
                   /\ \A m \in DOMAIN row.csv :
                          row.diff_pct[m] = round2(SignedDiffPct(row.csv[m], row.fab[m]))

\* C14, on the dimensions whose methods compute the difference
C14_DiffPctWhereComputed ==
    outcome = "validated" =>
        \A d \in {"by_date", "by_camp_gender", "by_date_gender_age"} :
            \A i \in 1..Len(raw_results[d]) :
               LET row == raw_results[d][i]
               IN  /\ DOMAIN row.diff_pct = DOMAIN row.csv
                   /\ \A m \in DOMAIN row.csv :
                          row.diff_pct[m] = round2(SignedDiffPct(row.csv[m], row.fab[m]))

\* the rows of raw_results, each named by its dimension and its position
ResultRows ==
    UNION {{<<d, i>> : i \in 1..Len(raw_results[d])} : d \in DOMAIN raw_results}

\* the rows that match: 'match' of an 'overall' entry, perfect_match of a
\* segment row
PassingRows ==
    {r \in ResultRows :
        IF r[1] = "overall" THEN raw_results[r[1]][r[2]].match
        ELSE raw_results[r[1]][r[2]].perfect_match}

\* q is a number of hundredths nearest to n / d, d > 0
NearestHundredth(q, n, d) ==
    /\ ~q.nan /\ q.d = 100
    /\ 2 * Abs(100 * n - q.n * d) <= d

\* 0 <= q <= 100
RateInRange(q) == ~q.nan /\ q.d > 0 /\ 0 <= q.n /\ q.n <= 100 * q.d

\* C24 as stated: total_segments is the number of rows of all dimensions,
\* passing_segments the number of matching rows, and overall_match_rate is
\* exactly 100 * passing_segments / total_segments (0 when there is no row),
\* so 0 <= passing_segments <= total_segments and 0 <= overall_match_rate <= 100.
C24_RateIsExactQuotient ==
    summary.state = "stats" =>
        /\ summary.total_segments = Cardinality(ResultRows)
        /\ summary.passing_segments = Cardinality(PassingRows)
        /\ IF summary.total_segments = 0
           THEN FracEq(summary.overall_match_rate, Frac(0, 1))
           ELSE FracEq(summary.overall_match_rate,
                       Frac(100 * summary.passing_segments, summary.total_segments))
        /\ 0 <= summary.passing_segments
        /\ summary.passing_segments <= summary.total_segments
        /\ RateInRange(summary.overall_match_rate)

\* C24, amended: as above, with overall_match_rate the quotient
\* 100 * passing_segments / total_segments rounded to two decimals.
C24_RateIsRoundedQuotient ==
    summary.state = "stats" =>
        /\ summary.total_segments = Cardinality(ResultRows)
        /\ summary.passing_segments = Cardinality(PassingRows)
        /\ IF summary.total_segments = 0
           THEN FracEq(summary.overall_match_rate, Frac(0, 1))
           ELSE NearestHundredth(summary.overall_match_rate,
                                 100 * summary.passing_segments, summary.total_segments)
        /\ 0 <= summary.passing_segments
        /\ summary.passing_segments <= summary.total_segments
        /\ RateInRange(summary.overall_match_rate)

\* get_summary_stats has returned a rate that is not a whole number of
\* hundredths before rounding, over matching and failing rows of 'overall' and
\* of the segments
C24_Witness ==
    /\ summary.state = "stats"
    /\ PassingRows # {} /\ PassingRows # ResultRows
    /\ \E r \in PassingRows : r[1] = "overall"
    /\ \E r \in PassingRows : r[1] # "overall"
    /\ (10000 * summary.passing_segments) % summary.total_segments # 0

\* the order of the metric list as specified: the six named metrics in their
\* listed order, then every other name alphabetically
ListedFirst == <<"cost", "impressions", "clicks", "reach", "purchases", "conversion_value">>

Position(x, names) == CHOOSE i \in 1..Len(names) : names[i] = x

ComesBefore(a, b) ==
    IF a \in ColSet(ListedFirst) /\ b \in ColSet(ListedFirst)
    THEN Position(a, ListedFirst) < Position(b, ListedFirst)
    ELSE IF a \in ColSet(ListedFirst) \/ b \in ColSet(ListedFirst)
    THEN a \in ColSet(ListedFirst)
    ELSE Rank(a) < Rank(b)

\* the total of column m of a table: the sum of its non-missing cells
ColumnTotal(df, m) == SumCells(Cells(df.rows, m))

\* what C27 says of _validate_overall but for diff_pct: one entry per numeric
\* column common to both tables, in the specified order, each with the two
\* column totals, their difference and the scalar Match Verdict
OverallEntries(res) ==
    /\ ~res.raised
    /\ {res.rows[i].metric : i \in 1..Len(res.rows)} = CommonNumeric
    /\ Len(res.rows) = Cardinality(CommonNumeric)
    /\ \A i, j \in 1..Len(res.rows) :
           i < j => ComesBefore(res.rows[i].metric, res.rows[j].metric)
    /\ \A i \in 1..Len(res.rows) :
           LET e == res.rows[i]
           IN  /\ e.csv = ColumnTotal(csv_df, e.metric)
               /\ e.fabric = ColumnTotal(fabric_df, e.metric)
               /\ e.diff = e.csv - e.fabric
               /\ e.match = MatchVerdict(Num(e.csv), Num(e.fabric), threshold_percent)
    /\ CommonNumeric = {} => res.rows = <<>>

\* C27 as stated: on two loaded tables _validate_overall returns the entries
\* above with diff_pct exactly diff / fabric * 100 (0 when fabric = 0), and
\* validate_all stores them under 'overall'.
C27_OverallExactDiffPct ==
    csv_df # None =>
        LET res == _validate_overall(csv_df, fabric_df, threshold_percent)
        IN  /\ OverallEntries(res)
            /\ \A i \in 1..Len(res.rows) :
                   LET e == res.rows[i]
                   IN  FracEq(e.diff_pct, SignedDiffPct(Num(e.csv), Num(e.fabric)))
            /\ outcome = "validated" => raw_results["overall"] = res.rows

\* C27, amended: the same with diff_pct the quotient diff / fabric * 100
\* rounded to two decimals (0 when fabric = 0).
C27_OverallRoundedDiffPct ==
    csv_df # None =>
        LET res == _validate_overall(csv_df, fabric_df, threshold_percent)
        IN  /\ OverallEntries(res)
            /\ \A i \in 1..Len(res.rows) :
                   LET e == res.rows[i]
                   IN  IF e.fabric = 0 THEN FracEq(e.diff_pct, Frac(0, 1))
                       ELSE NearestHundredth(
                                e.diff_pct,
                                IF e.fabric < 0 THEN -(100 * e.diff) ELSE 100 * e.diff,
                                Abs(e.fabric))
            /\ outcome = "validated" => raw_results["overall"] = res.rows

\* validate_all has stored an 'overall' list of six entries, two of them names
\* outside the listed six, with a matching and a failing entry and an entry
\* whose quotient is not a whole number of hundredths
C27_Witness ==
    /\ outcome = "validated"
    /\ Len(raw_results["overall"]) = 6
    /\ raw_results["overall"][5].metric = "ctr"
    /\ raw_results["overall"][6].metric = "frequency"
    /\ \E i, j \in 1..6 : raw_results["overall"][i].match /\ ~raw_results["overall"][j].match
    /\ \E i \in 1..6 :
           LET e == raw_results["overall"][i]
           IN  e.fabric # 0 /\ (10000 * e.diff) % e.fabric # 0

\* _validate_overall on two loaded tables with no common numeric column
C27_WitnessNoCommonColumn ==
    /\ csv_df # None
    /\ CommonNumeric = {}
    /\ _validate_overall(csv_df, fabric_df, threshold_percent) = Returned(<<>>)

\* the sum of a list of numbers
RECURSIVE Total(_)
Total(nums) == IF nums = <<>> THEN 0 ELSE Head(nums) + Total(Tail(nums))

\* the rows of df whose key cells of dimension d are all present
KeyedRows(df, d) ==
    SelectSeq(df.rows, LAMBDA r : \A c \in ColSet(DimCols(d)) : r[c] # NA)

\* the sum of metric m over the rows of df whose keys are present, a missing
\* cell counting 0
KeyedTotal(df, d, m) ==
    LET rows == KeyedRows(df, d)
    IN  Total([i \in 1..Len(rows) |-> IF isna(rows[i][m]) THEN 0 ELSE rows[i][m].v])

\* C28: for every evaluated dimension and every metric of its rows the csv
\* values of the segment rows are numbers that add up to the total of the
\* metric over the Growth rows whose key cells are all present, and the fab
\* values to that of the Gold rows; without such rows there is no segment row.
C28_TotalsConserved ==
    \A d \in Segments :
        Evaluated(d) =>
            LET rows == raw_results[d]
            IN  /\ rows = <<>> =>
                       KeyedRows(csv_df, d) = <<>> /\ KeyedRows(fabric_df, d) = <<>>
                /\ \A i \in 1..Len(rows) : \A m \in DOMAIN rows[i].csv :
                       ~isna(rows[i].csv[m]) /\ ~isna(rows[i].fab[m])
                /\ rows # <<>> =>
                       \A m \in DOMAIN rows[1].csv :
                           /\ Total([i \in 1..Len(rows) |-> rows[i].csv[m].v])
                                  = KeyedTotal(csv_df, d, m)
                           /\ Total([i \in 1..Len(rows) |-> rows[i].fab[m].v])
                                  = KeyedTotal(fabric_df, d, m)

\* by_platform has been evaluated on a Growth table of two rows of one
\* platform and a Gold table with a row of another platform and a row without
\* a platform
C28_Witness ==
    /\ Evaluated("by_platform")
    /\ Len(raw_results["by_platform"]) = 2
    /\ Len(csv_df.rows) = 2
    /\ csv_df.rows[1].platform = csv_df.rows[2].platform
    /\ csv_df.rows[1].cost # csv_df.rows[2].cost
    /\ Len(KeyedRows(fabric_df, "by_platform")) = 1
    /\ Len(fabric_df.rows) = 2

\* C29: when the Growth file and the Gold file are the same table, whatever
\* the tolerance, every 'overall' entry validate_all returns has match true
\* and diff 0, and every segment row of every dimension has perfect_match true.
C29_SelfReconciliationAgrees ==
    (growth_file = gold_file /\ outcome = "validated") =>
        /\ \A i \in 1..Len(raw_results["overall"]) :
               raw_results["overall"][i].match /\ raw_results["overall"][i].diff = 0
        /\ \A d \in Segments : \A i \in 1..Len(raw_results[d]) :
               raw_results[d][i].perfect_match

\* a table has been reconciled against itself with tolerance 0 and has segment
\* rows with a negative cost total, with a zero impressions total and with a
\* positive impressions total
C29_Witness ==
    /\ growth_file = gold_file
    /\ threshold_percent = 0
    /\ outcome = "validated"
    /\ Len(raw_results["overall"]) > 0
    /\ \E i \in 1..Len(raw_results["by_gender"]) :
           raw_results["by_gender"][i].csv["cost"].v < 0
    /\ \E i \in 1..Len(raw_results["by_gender"]) :
           raw_results["by_gender"][i].csv["impressions"].v = 0
    /\ \E i \in 1..Len(raw_results["by_gender"]) :
           raw_results["by_gender"][i].csv["impressions"].v > 0

-----------------------------------------------------------------------------
(* Properties of the fix suggestions (SpecFixes).                          *)

KnownTypes == {"duplicate_records", "grain_mismatch", "date_shift", "missing_campaigns",
               "systematic_bias"}

TemplateFields == {"pandas_fix", "sql_equivalent", "prevention"}

\* C23: generate_fixes raises nothing and returns one fix per cause in the
\* order of the causes; the i-th fix carries the type and the description of
\* the i-th cause, the three template fields when the type is one of the five
\* known types, and nothing but type and description otherwise.
C23_FixesOneToOne ==
    fix_outcome # "none" =>
        /\ fix_outcome = "returned"
        /\ Len(fixes) = Len(fix_root_causes)
        /\ \A i \in 1..Len(fixes) :
               LET cause == fix_root_causes[i]
                   fix   == fixes[i]
               IN  /\ fix.root_cause_type = cause.type
                   /\ fix.description = cause.description
                   /\ cause.type \in KnownTypes =>
                          DOMAIN fix = {"root_cause_type", "description"} \cup TemplateFields
                   /\ cause.type \notin KnownTypes =>
                          DOMAIN fix = {"root_cause_type", "description"}

\* generate_fixes has returned the fixes of two causes of different types, the
\* first of a type it does not know, the second of a known type
C23_Witness ==
    /\ fix_outcome = "returned"
    /\ Len(fix_root_causes) = 2
    /\ fix_root_causes[1].type \notin KnownTypes
    /\ fix_root_causes[2].type = "missing_campaigns"
    /\ Len(fixes[2].pandas_fix.values[1]) = 3

-----------------------------------------------------------------------------
(* Properties of the column mapper (SpecMapper).                           *)

LeftNames == NamesOf(mapper_growth_df)

RightNames == NamesOf(mapper_fabric_df)

\* the right columns equal to the left column g but for the case of letters
ExactMatches(g) == {f \in ColSet(RightNames) : lower(f) = lower(g)}

\* the similarity score of left column g and right column f
Score(g, f) == ratio(lower(g), lower(f))

\* the highest score of g against the right columns, 0 without right columns
BestScore(g) ==
    IF RightNames = <<>> THEN 0
    ELSE LET f == CHOOSE x \in ColSet(RightNames) :
                      \A y \in ColSet(RightNames) : Score(g, y) <= Score(g, x)
         IN  Score(g, f)

\* some right column clears the threshold for g
ClearsThreshold(g) == RightNames # <<>> /\ BestScore(g) >= threshold

\* C25: a left column with a case-insensitively equal right column is mapped
\* to such a column with confidence 100 and method 'exact'; any other left
\* column whose best similarity score is >= threshold is mapped with method
\* 'fuzzy' to a right column of that score, with the score as confidence; the
\* call never raises, and every confidence lies in [0, 100].
C25_ExactThenBestFuzzy ==
    map_outcome # "none" =>
        /\ map_outcome = "returned"
        /\ DOMAIN mappings \subseteq ColSet(LeftNames)
        /\ \A g \in DOMAIN mappings :
               mappings[g].confidence >= 0 /\ mappings[g].confidence <= 100
        /\ \A g \in ColSet(LeftNames) :
               IF ExactMatches(g) # {}
               THEN /\ g \in DOMAIN mappings
                    /\ mappings[g].mapped_to \in ExactMatches(g)
                    /\ mappings[g].confidence = 100
                    /\ mappings[g].method = "exact"
               ELSE ClearsThreshold(g) =>
                    /\ g \in DOMAIN mappings
                    /\ mappings[g].method = "fuzzy"
                    /\ mappings[g].confidence = BestScore(g)
                    /\ Score(g, mappings[g].mapped_to) = BestScore(g)

\* C25 for the thresholds above 0
C25_PositiveThresholds == threshold > 0 => C25_ExactThenBestFuzzy

\* the keyword groups a name matches
GroupsOf(name) ==
    {k \in 1..Len(keywords) : AnyIn(keywords[k].variants, lower(name))}

\* the right columns that match a keyword group g matches
SemanticMatches(g) == {f \in ColSet(RightNames) : GroupsOf(f) \cap GroupsOf(g) # {}}

\* C26: a mapping of method 'semantic' is emitted only for a left column with
\* no exact match and no right column clearing the threshold; such a left
\* column, when a right column matches a keyword group it matches, is mapped
\* to such a right column with confidence 80 and method 'semantic', whatever
\* the threshold.
C26_SemanticFallback ==
    map_outcome = "returned" =>
        \A g \in ColSet(LeftNames) :
            /\ (g \in DOMAIN mappings /\ mappings[g].method = "semantic") =>
                   ExactMatches(g) = {} /\ ~ClearsThreshold(g)
            /\ (ExactMatches(g) = {} /\ ~ClearsThreshold(g) /\ SemanticMatches(g) # {}) =>
                   /\ g \in DOMAIN mappings
                   /\ mappings[g].method = "semantic"
                   /\ mappings[g].confidence = 80
                   /\ mappings[g].mapped_to \in SemanticMatches(g)

\* C26 for the thresholds from 1 to 80
C26_ThresholdsUpTo80 == (threshold > 0 /\ threshold <= 80) => C26_SemanticFallback

-----------------------------------------------------------------------------
(* Properties of the sessions (SpecAuth).                                  *)

\* the tokens requests are made with
Bearers == issued \cup {ForgedToken}

\* this step is a request with the token to an endpoint behind
\* get_current_user
RequestWith(token) == verify_auth(token) \/ logout(token)

\* the JWT of the token verifies: signed with the service's key, exp not past
JwtVerifies(token) == token.key = SECRET_KEY /\ token.exp >= now

\* the rows this step deletes
Deleted == (DOMAIN sessions) \ (DOMAIN sessions')

-----------------------------------------------------------------------------
(* Properties of the normalization (SpecNorm).                             *)

\* C9: within the pass over one table an entry of renamed_cols made by an
\* earlier rule (a user mapping, or the rule of an earlier standard name) is
\* never changed by a later rule, and no two columns get the same name.
C9_EarlierRuleKept ==
    [][norm_pc.step < RenameStep =>
          /\ \A c \in DOMAIN renamed_cols :
                 c \in DOMAIN renamed_cols' /\ renamed_cols'[c] = renamed_cols[c]
          /\ \A c1, c2 \in DOMAIN renamed_cols' :
                 c1 # c2 => renamed_cols'[c1] # renamed_cols'[c2]]_vars

\* C10: the second run of the rename rules on the tables of the first run
\* renames no column.
C10_SecondPassRenamesNothing ==
    norm_pass = 2 => \A c \in DOMAIN renamed_cols : renamed_cols[c] = c

Distinct(cols) == \A i, j \in 1..Len(cols) : i # j => cols[i] # cols[j]

\* C11: the column names of each table are pairwise distinct, before and
\* after the renames of _normalize_columns.
C11_ColumnNamesDistinct == Distinct(columns[Growth]) /\ Distinct(columns[Gold])

\* the mapping the caller passed for a table
OwnMapping(df) == IF df = Growth THEN custom_column_mappings ELSE gold_column_mappings

\* renamed_cols after the first k rules, computed from one table and one mapping
RECURSIVE RenamesAfter(_, _, _)
RenamesAfter(cols, mapping, k) ==
    IF k = 0 THEN ApplyMappings(cols, mapping, EmptyDict, {}).renamed_cols
    ELSE AutoDetect(cols, rules[k], RenamesAfter(cols, mapping, k - 1),
                    ApplyMappings(cols, mapping, EmptyDict, {}).already_mapped_targets)

\* C12: a step of the pass over one table leaves the columns of the other
\* table as they were, and the renames decided for a table are those computed
\* from that table's columns and that table's mapping alone.
C12_TablesIndependent ==
    [][norm_pc.df \in {Growth, Gold} =>
          /\ columns'[Growth + Gold - norm_pc.df] = columns[Growth + Gold - norm_pc.df]
          /\ norm_pc'.step = RenameStep =>
                 renamed_cols' = RenamesAfter(columns[norm_pc.df], OwnMapping(norm_pc.df),
                                              Len(rules))]_vars

\* the Gold table has been through the rules while the Growth table, renamed
\* by a Growth mapping, sits next to it, and a Gold column is being renamed
C12_Witness ==
    /\ norm_pass = 1
    /\ norm_pc = [df |-> Gold, step |-> RenameStep]
    /\ custom_column_mappings # <<>>
    /\ InList(columns[Growth], n_conversion_value)
    /\ InList(columns[Gold], n_amount)
    /\ renamed_cols # EmptyDict

-----------------------------------------------------------------------------
(* Properties of the root-cause engine (SpecRoot).                         *)

\* the list the last analyze call returned
Result == heap[root_causes]

Types(causes) == {causes[i].type : i \in 1..Len(causes)}

CauseOf(causes, t) == causes[CHOOSE i \in 1..Len(causes) : causes[i].type = t]

\* the rules in the order analyze evaluates them
RuleOrder ==
    <<"duplicate_records", "grain_mismatch", "date_shift", "missing_campaigns",
      "systematic_bias">>

RuleRank(t) == CHOOSE i \in 1..Len(RuleOrder) : RuleOrder[i] = t

\* the rows of df that repeat an earlier row, counted row by row
DuplicateCount(df) ==
    LET rs == RowsOf(df)
        extra[S \in SUBSET rs] ==
            IF S = {} THEN 0
            ELSE LET r == CHOOSE x \in S : TRUE
                 IN  (Occurrences(df, r) - 1) + extra[S \ {r}]
    IN  extra[rs]

\* the conditions of the five rules, each from the tables and the overall
\* result alone
DuplicatesCondition == DuplicateCount(rc_growth_df) > 0

GrainCondition ==
    Abs(len(rc_growth_df) - len(rc_fabric_df)) * 100
        > 10 * max(len(rc_growth_df), len(rc_fabric_df))

DateCondition ==
    /\ "day" \in rc_growth_df.columns \cap rc_fabric_df.columns
    /\ {r.day : r \in RowsOf(rc_growth_df)} # {r.day : r \in RowsOf(rc_fabric_df)}

CampaignNamesOf(df) == {r.campaign_name : r \in RowsOf(df)}

CampaignsCondition ==
    /\ "campaign_name" \in rc_growth_df.columns \cap rc_fabric_df.columns
    /\ CampaignNamesOf(rc_growth_df) # CampaignNamesOf(rc_fabric_df)

BiasCondition ==
    /\ "overall" \in DOMAIN validation_results
    /\ LET o == validation_results["overall"]
           differing == {i \in 1..Len(o) : o[i].csv # o[i].fabric}
       IN  /\ Cardinality(differing) >= 2
           /\ \/ \A i \in differing : o[i].csv > o[i].fabric
              \/ \A i \in differing : o[i].fabric > o[i].csv

\* C15: two analyze calls on the same tables with the same argument return
\* equal lists (the second neither repeats nor extends the first), and the
\* list a call returned is afterwards still what it was when returned.
C15_AnalyzeRepeatable ==
    /\ \A i, j \in 1..Len(calls) :
           calls[i].arg = calls[j].arg => calls[i].returned = calls[j].returned
    /\ \A i \in 1..Len(calls) : heap[calls[i].list] = calls[i].returned

\* C15, for calls made in one process: equal lists, none altered afterwards
C15_RepeatableInOneProcess ==
    /\ \A i, j \in 1..Len(calls) :
           (calls[i].arg = calls[j].arg /\ calls[i].process = calls[j].process)
               => calls[i].returned = calls[j].returned
    /\ \A i \in 1..Len(calls) : heap[calls[i].list] = calls[i].returned

\* C16: the returned causes are in rule-evaluation order, each type at most
\* once, and each type is present exactly when its own rule's condition
\* holds, whatever the other rules did.
C16_RuleOrderKept ==
    root_outcome = "returned" =>
        /\ \A i, j \in 1..Len(Result) :
               i < j => RuleRank(Result[i].type) < RuleRank(Result[j].type)
        /\ ("duplicate_records" \in Types(Result)) = DuplicatesCondition
        /\ ("grain_mismatch" \in Types(Result)) = GrainCondition
        /\ ("date_shift" \in Types(Result)) = DateCondition
        /\ ("missing_campaigns" \in Types(Result)) = CampaignsCondition
        /\ ("systematic_bias" \in Types(Result)) = BiasCondition

\* a returned list in which a cause of lower confidence stands before one of
\* higher confidence, next to a rule that did not fire
C16_Witness ==
    /\ root_outcome = "returned"
    /\ Len(Result) >= 3
    /\ "systematic_bias" \in Types(Result)
    /\ "duplicate_records" \notin Types(Result)
    /\ \E i \in 1..Len(Result) :
           /\ Result[i].type = "grain_mismatch"
           /\ i < Len(Result) /\ Result[i + 1].type = "date_shift"
    /\ "missing_campaigns" \in Types(Result)

\* C17: analyze never raises, whatever the tables (tables without rows, and
\* tables without day or campaign_name included) and the validation result.
C17_AnalyzeNeverRaises == root_outcome # "ZeroDivisionError"

\* C17, when at least one table has a row: analyze returns, and a rule whose
\* column is missing is absent from the list
C17_ReturnsWhenSomeRow ==
    (root_outcome # "constructed" /\ len(rc_growth_df) + len(rc_fabric_df) > 0) =>
        /\ root_outcome = "returned"
        /\ "day" \notin rc_growth_df.columns \cap rc_fabric_df.columns =>
               "date_shift" \notin Types(Result)
        /\ "campaign_name" \notin rc_growth_df.columns \cap rc_fabric_df.columns =>
               "missing_campaigns" \notin Types(Result)
        /\ "overall" \notin DOMAIN validation_results =>
               "systematic_bias" \notin Types(Result)

\* C18: duplicate_records is returned exactly when the Growth table has a
\* fully duplicated row, whatever the Gold table's duplicates; it then has
\* confidence 0.95, the two duplicate counts and at most 3 sample rows, each
\* a repeated row of the Growth table (2 duplicates left, 0 right: count 2).
C18_DuplicateRecords ==
    root_outcome = "returned" =>
        /\ ("duplicate_records" \in Types(Result)) = (DuplicateCount(rc_growth_df) > 0)
        /\ "duplicate_records" \in Types(Result) =>
               LET c == CauseOf(Result, "duplicate_records")
               IN  /\ c.confidence = Frac(95, 100)
                   /\ c.evidence.growth_duplicates = DuplicateCount(rc_growth_df)
                   /\ c.evidence.fabric_duplicates = DuplicateCount(rc_fabric_df)
                   /\ Len(c.evidence.sample_duplicates) <= 3
                   /\ \A i \in 1..Len(c.evidence.sample_duplicates) :
                          Occurrences(rc_growth_df, c.evidence.sample_duplicates[i]) > 1

\* the Growth table has 2 duplicated rows among 4 repeated ones, the Gold
\* table none, and the rule fired with 3 samples
C18_Witness ==
    /\ root_outcome = "returned"
    /\ DuplicateCount(rc_growth_df) = 2
    /\ DuplicateCount(rc_fabric_df) = 0
    /\ "duplicate_records" \in Types(Result)
    /\ CauseOf(Result, "duplicate_records").evidence.growth_duplicates = 2
    /\ Len(CauseOf(Result, "duplicate_records").evidence.sample_duplicates) = 3

\* C19: grain_mismatch is returned exactly when |rows_left - rows_right| * 100
\* exceeds 10 * max(rows_left, rows_right) (exactly 10 percent does not fire);
\* it then has confidence 0.80, both row counts, and the percentage as the
\* nearest hundredth (120 against 100 rows: 16.67).
C19_GrainMismatch ==
    root_outcome = "returned" =>
        LET l == len(rc_growth_df)
            r == len(rc_fabric_df)
        IN  /\ ("grain_mismatch" \in Types(Result)) = (Abs(l - r) * 100 > 10 * max(l, r))
            /\ "grain_mismatch" \in Types(Result) =>
                   LET c == CauseOf(Result, "grain_mismatch")
                       h == c.evidence.difference_pct
                   IN  /\ c.confidence = Frac(80, 100)
                       /\ c.evidence.growth_rows = l
                       /\ c.evidence.fabric_rows = r
                       /\ h.d = 100
                       /\ 2 * Abs(h.n * max(l, r) - Abs(l - r) * 10000) <= max(l, r)
                       /\ (l = 120 /\ r = 100) => h.n = 1667

\* 120 Growth rows against 100 Gold rows, reported as 16.67 percent
C19_Witness ==
    /\ root_outcome = "returned"
    /\ len(rc_growth_df) = 120
    /\ len(rc_fabric_df) = 100
    /\ "grain_mismatch" \in Types(Result)
    /\ CauseOf(Result, "grain_mismatch").evidence.difference_pct = Frac(1667, 100)

\* 10 Growth rows against 9 Gold rows, exactly 10 percent: not reported
C19_WitnessExactlyTen ==
    /\ root_outcome = "returned"
    /\ len(rc_growth_df) = 10
    /\ len(rc_fabric_df) = 9
    /\ "grain_mismatch" \notin Types(Result)

\* C20: missing_campaigns is returned exactly when both tables have
\* campaign_name and their sets of campaign names differ; it then has
\* confidence 0.90 and two lists of at most 5 distinct names, growth_only of
\* names only the Growth table has and fabric_only of names only the Gold
\* table has ({A, B, C} against {A, B}: growth_only is [C], fabric_only []).
C20_MissingCampaigns ==
    root_outcome = "returned" =>
        LET left  == CampaignNamesOf(rc_growth_df)
            right == CampaignNamesOf(rc_fabric_df)
            both  == "campaign_name" \in rc_growth_df.columns \cap rc_fabric_df.columns
        IN  /\ ("missing_campaigns" \in Types(Result)) = (both /\ left # right)
            /\ "missing_campaigns" \in Types(Result) =>
                   LET c == CauseOf(Result, "missing_campaigns")
                       g == c.evidence.growth_only
                       f == c.evidence.fabric_only
                   IN  /\ c.confidence = Frac(90, 100)
                       /\ Len(g) <= 5 /\ Len(f) <= 5
                       /\ Distinct(g) /\ Distinct(f)
                       /\ ColSet(g) \subseteq left \ right
                       /\ ColSet(f) \subseteq right \ left
                       /\ (left = {"A", "B", "C"} /\ right = {"A", "B"}) =>
                              (g = <<"C">> /\ f = <<>>)

\* campaigns A, B, C against A, B: reported with growth_only [C]
C20_Witness ==
    /\ root_outcome = "returned"
    /\ CampaignNamesOf(rc_growth_df) = {"A", "B", "C"}
    /\ CampaignNamesOf(rc_fabric_df) = {"A", "B"}
    /\ "missing_campaigns" \in Types(Result)
    /\ CauseOf(Result, "missing_campaigns").evidence.growth_only = <<"C">>
    /\ CauseOf(Result, "missing_campaigns").evidence.fabric_only = <<>>

DaysOf(df) == {r.day : r \in RowsOf(df)}

\* C21: date_shift is returned exactly when both tables have a day column and
\* their sets of days differ; it then has confidence 0.75, the sizes of the
\* two set differences, and two lists of at most 3 distinct dates, each date
\* of the corresponding set difference.
C21_DateShift ==
    root_outcome = "returned" =>
        LET both == "day" \in rc_growth_df.columns \cap rc_fabric_df.columns
        IN  /\ ("date_shift" \in Types(Result))
                   = (both /\ DaysOf(rc_growth_df) # DaysOf(rc_fabric_df))
            /\ "date_shift" \in Types(Result) =>
                   LET c     == CauseOf(Result, "date_shift")
                       left  == DaysOf(rc_growth_df) \ DaysOf(rc_fabric_df)
                       right == DaysOf(rc_fabric_df) \ DaysOf(rc_growth_df)
                       g     == c.evidence.sample_growth_only
                       f     == c.evidence.sample_fabric_only
                   IN  /\ c.confidence = Frac(75, 100)
                       /\ c.evidence.growth_only_dates = Cardinality(left)
                       /\ c.evidence.fabric_only_dates = Cardinality(right)
                       /\ Len(g) <= 3 /\ Len(f) <= 3
                       /\ Distinct(g) /\ Distinct(f)
                       /\ \A i \in 1..Len(g) : g[i][1] \in left
                       /\ \A i \in 1..Len(f) : f[i][1] \in right

\* the Growth table has more than 3 days the Gold table lacks, the Gold table
\* has a day the Growth table lacks, and 3 of the Growth days are reported
C21_Witness ==
    /\ root_outcome = "returned"
    /\ Cardinality(DaysOf(rc_growth_df) \ DaysOf(rc_fabric_df)) > 3
    /\ Cardinality(DaysOf(rc_fabric_df) \ DaysOf(rc_growth_df)) = 1
    /\ "date_shift" \in Types(Result)
    /\ Len(CauseOf(Result, "date_shift").evidence.sample_growth_only) = 3
    /\ Len(CauseOf(Result, "date_shift").evidence.sample_fabric_only) = 1

\* C22: systematic_bias is returned exactly when 'overall' is present, at
\* least 2 of its entries have csv # fabric and all of those differ in the
\* same direction (an entry with csv = fabric gives no direction and does not
\* break unanimity); it then has confidence 0.85, that direction, and the
\* number of entries with csv # fabric.
C22_SystematicBias ==
    root_outcome = "returned" =>
        LET o == IF "overall" \in DOMAIN validation_results
                 THEN validation_results["overall"] ELSE <<>>
            above == {i \in 1..Len(o) : o[i].csv > o[i].fabric}
            below == {i \in 1..Len(o) : o[i].fabric > o[i].csv}
        IN  /\ ("systematic_bias" \in Types(Result))
                   = (/\ Cardinality(above) + Cardinality(below) >= 2
                      /\ above = {} \/ below = {})
            /\ "systematic_bias" \in Types(Result) =>
                   LET c == CauseOf(Result, "systematic_bias")
                   IN  /\ c.confidence = Frac(85, 100)
                       /\ c.evidence.direction =
                              (IF below = {} THEN "growth_higher" ELSE "fabric_higher")
                       /\ c.evidence.affected_metrics
                              = Cardinality(above) + Cardinality(below)

\* 'overall' has two entries with csv > fabric around one with csv = fabric,
\* and the bias is reported for 2 metrics
C22_Witness ==
    /\ root_outcome = "returned"
    /\ "overall" \in DOMAIN validation_results
    /\ Len(validation_results["overall"]) = 3
    /\ \E i \in 1..3 : validation_results["overall"][i].csv
                           = validation_results["overall"][i].fabric
    /\ "systematic_bias" \in Types(Result)
    /\ CauseOf(Result, "systematic_bias").evidence.affected_metrics = 2
    /\ CauseOf(Result, "systematic_bias").evidence.direction = "growth_higher"

-----------------------------------------------------------------------------
(* Properties of the match rule (SpecMatch).                               *)

BothRun == scalar_res # NotRun /\ vec_res # NotRun

Defined(i) == ~isna(s_csv[i]) /\ ~isna(s_fab[i])

\* C1: the element _vectorized_match produces for (a, b) equals
\* _check_match(a, b), for every tolerance and every pair of defined or
\* undefined numbers, b negative and b = 0 included.
C1_SameVerdict ==
    BothRun => \A i \in 1..Len(s_csv) : vec_res[i] = scalar_res[i]

\* C2: with both values defined and b = 0 the verdict, scalar and vectorized,
\* is exactly (a = 0), whatever the tolerance.
C2_ZeroReference ==
    \A i \in 1..Len(s_csv) :
        (Defined(i) /\ s_fab[i].v = 0) =>
            /\ scalar_res # NotRun => scalar_res[i] = (s_csv[i].v = 0)
            /\ vec_res # NotRun => vec_res[i] = (s_csv[i].v = 0)

\* a nonzero value against a zero reference at the largest tolerance
C2_Witness ==
    /\ BothRun
    /\ threshold_percent = MaxTol
    /\ Len(s_csv) = 1
    /\ Defined(1) /\ s_fab[1].v = 0 /\ s_csv[1].v = 300
    /\ scalar_res[1] = FALSE /\ vec_res[1] = FALSE

\* C3: when a or b is undefined the verdict, scalar and vectorized, is false,
\* whatever the tolerance and the other value.
C3_UndefinedIsFalse ==
    \A i \in 1..Len(s_csv) :
        ~Defined(i) =>
            /\ scalar_res # NotRun => scalar_res[i] = FALSE
            /\ vec_res # NotRun => vec_res[i] = FALSE

\* an undefined value against the reference 0
C3_Witness ==
    /\ BothRun
    /\ Len(s_csv) = 1
    /\ isna(s_csv[1]) /\ ~isna(s_fab[1]) /\ s_fab[1].v = 0
    /\ scalar_res[1] = FALSE /\ vec_res[1] = FALSE

One(x) == <<Num(x)>>

====
